---- MODULE Spec2Model ----
(***************************************************************************)
(* node-hamlib: the NodeHamLib object (one radio connection), its public   *)
(* methods (dispatchers, run on the JavaScript thread), the                *)
(* HamLibAsyncWorker subclasses they queue (Execute runs on a thread of    *)
(* the libuv pool, OnOK/OnError run back on the JavaScript thread) and     *)
(* the promise each worker settles.                                        *)
(***************************************************************************)
EXTENDS Integers, Sequences, FiniteSets, TLC

(***************************************************************************)
(* Status codes of the hardware library as the source uses them.  The      *)
(* library returns RIG_OK or a negated code.                               *)
(***************************************************************************)
RIG_OK == 0
RIG_EINVAL == 1
RIG_ENIMPL == 4
RIG_ETIMEOUT == 5
RIG_EIO == 6
RIG_EPROTO == 8
RIG_ENAVAIL == 11

\* The most commands one behaviour of the concurrent specification submits.
MaxCmds == 3

\* The threads of the pool that run Execute.  Napi::AsyncWorker::Queue hands
\* the work to the libuv pool, which has more than one thread.
Workers == {"w1", "w2"}

\* Statuses the hardware stub answers with in the concurrent specification.
EngineStatuses == {RIG_OK, -RIG_EIO}

\* Statuses the hardware stub answers with in the per-operation specification.
OpsStatuses == {RIG_OK, -RIG_EIO, -RIG_ETIMEOUT, -RIG_ENAVAIL}

(***************************************************************************)
(* The public operations that queue a worker, by the JavaScript name       *)
(* GetClass registers them under.                                          *)
(***************************************************************************)

\* Dispatchers that begin with "if (!rig_is_open) throw".
OpenCheckedOps ==
    {"setVfo", "setFrequency", "setMode", "setPtt", "getVfo", "getFrequency",
     "getMode", "getStrength", "close", "setMemoryChannel", "getMemoryChannel",
     "selectMemoryChannel", "setRit", "getRit", "setXit", "getXit",
     "clearRitXit", "startScan", "stopScan", "setLevel", "getLevel",
     "setFunction", "getFunction", "setSplitFreq", "getSplitFreq",
     "setSplitMode", "getSplitMode", "setSplit", "getSplit", "vfoOperation",
     "setAntenna", "getAntenna", "power2mW", "mW2power"}

\* Dispatchers that never read rig_is_open.
UncheckedOps ==
    {"open", "destroy", "setSerialConfig", "getSerialConfig", "setPttType",
     "getPttType", "setDcdType", "getDcdType", "setPowerstat", "getPowerstat",
     "getPtt", "getDcd", "setTuningStep", "getTuningStep", "setRepeaterShift",
     "getRepeaterShift", "setRepeaterOffset", "getRepeaterOffset",
     "setCtcssTone", "getCtcssTone", "setDcsCode", "getDcsCode", "setCtcssSql",
     "getCtcssSql", "setDcsSql", "getDcsSql", "setParm", "getParm", "sendDtmf",
     "recvDtmf", "getMem", "setBank", "memCount", "sendMorse", "stopMorse",
     "waitMorse", "sendVoiceMem", "stopVoiceMem", "setSplitFreqMode",
     "getSplitFreqMode", "reset"}

AsyncOps == OpenCheckedOps \cup UncheckedOps

\* Dispatchers that throw a TypeError when a required argument is missing or
\* has the wrong JavaScript type.
ArityCheckedOps ==
    {"setVfo", "setFrequency", "setMode", "setPtt", "setMemoryChannel",
     "getMemoryChannel", "selectMemoryChannel", "setRit", "setXit", "startScan",
     "setLevel", "getLevel", "setFunction", "getFunction", "setSplitFreq",
     "setSplitMode", "setSplit", "vfoOperation", "setAntenna",
     "setSerialConfig", "getSerialConfig", "setPttType", "setDcdType",
     "setPowerstat", "setTuningStep", "setRepeaterShift", "setRepeaterOffset",
     "setCtcssTone", "setDcsCode", "setCtcssSql", "setDcsSql", "setParm",
     "getParm", "sendDtmf", "setBank", "sendMorse", "sendVoiceMem",
     "setSplitFreqMode", "power2mW", "mW2power"}

\* Dispatchers that decode an enumerated name themselves and throw on a name
\* outside the table.
NameSyncOps ==
    {"setVfo", "setMode", "startScan", "setLevel", "getLevel", "setFunction",
     "getFunction", "setSplitMode", "vfoOperation", "setRepeaterShift",
     "setParm", "getParm", "setSplitFreqMode", "power2mW", "mW2power", "reset"}

\* Operations whose enumerated name is passed on as a string and decoded in
\* the worker's Execute.
NameWorkerOps == {"setSerialConfig", "getSerialConfig", "setPttType", "setDcdType"}

\* Dispatchers that throw on a number outside its accepted range.
RangeSyncOps == {"setFrequency", "setSplitFreq", "setSplitFreqMode", "power2mW", "mW2power"}

\* Operations whose Execute converts a value string with std::stoi.
StoiOps == {"setSerialConfig"}

\* Workers whose Execute makes no hardware-library call: they read or write
\* the port fields of the handle.
LocalOps ==
    {"setSerialConfig", "getSerialConfig", "setPttType", "getPttType",
     "setDcdType", "getDcdType"}

\* Workers whose hardware verb is compiled in only for a new library version.
VoiceMemOps == {"stopVoiceMem"}
SplitFreqModeOps == {"setSplitFreqMode", "getSplitFreqMode"}

\* Workers whose OnOK fulfils with an out-value of the hardware call.
GetterOps ==
    {"getVfo", "getFrequency", "getMode", "getStrength", "getMemoryChannel",
     "getRit", "getXit", "getLevel", "getFunction", "getSplitFreq",
     "getSplitMode", "getSplit", "getAntenna", "getPowerstat", "getPtt",
     "getDcd", "getTuningStep", "getRepeaterShift", "getRepeaterOffset",
     "getCtcssTone", "getDcsCode", "getCtcssSql", "getDcsSql", "getParm",
     "recvDtmf", "getMem", "memCount", "getSplitFreqMode", "power2mW",
     "mW2power"}


\* Operations whose Execute rejects a number it will not store.
RangeWorkerOps == {"setSerialConfig"}

\* Workers whose OnOK calls Resolve without reading result_code_.
AlwaysResolveOps == {"getMemoryChannel", "getRepeaterShift"}

(***************************************************************************)
(* The classes of argument lists a caller can pass: "ok" is a well-formed  *)
(* call, "arity" a missing or wrongly typed argument, "name" a string      *)
(* outside the enumerated names, "range" a number outside the accepted     *)
(* interval, "nan" a value string that is not a number, "passband" a       *)
(* well-formed setMode call that names the bandwidth "narrow" or "wide".   *)
(***************************************************************************)
ArgClasses(op) ==
    {"ok"}
    \cup (IF op = "setMode" THEN {"passband"} ELSE {})
    \cup (IF op \in ArityCheckedOps THEN {"arity"} ELSE {})
    \cup (IF op \in NameSyncOps \cup NameWorkerOps THEN {"name"} ELSE {})
    \cup (IF op \in RangeSyncOps \cup RangeWorkerOps THEN {"range"} ELSE {})
    \cup (IF op \in StoiOps THEN {"nan"} ELSE {})

\* The text the hardware library gives for a status; the library is opaque,
\* so the text is the call itself.
rigerror(code) == "rigerror(" \o ToString(code) \o ")"

\* error_message_ set by the CHECK_RIG_VALID macro.
CheckRigValidMessage == "RIG is not initialized or has been destroyed"

\* The exception a dispatcher leaves pending before it returns, "" for none.
\* The state error carries the source's text; validation errors are named by
\* the class of the check that failed.
NoThrow == ""
NotOpenError == "Rig is not open!"

SyncError(op, arg, open) ==
    IF op \in OpenCheckedOps /\ ~open THEN NotOpenError
    ELSE IF arg = "arity" /\ op \in ArityCheckedOps THEN "arguments"
    ELSE IF arg = "name" /\ op \in NameSyncOps THEN "name"
    ELSE IF arg = "range" /\ op \in RangeSyncOps THEN "range"
    ELSE NoThrow

\* HamLibAsyncWorker as its constructor leaves it, plus the position of the
\* worker (pc), the number of hardware-library calls it has made (calls), the
\* statuses of the calls already returned (partial), whether Execute ended by
\* an exception (exc), the calls made on deferred_ (settles), and the value
\* rig_is_open had when the dispatcher ran (isOpen).
NewWorker(op, arg, open) ==
    [op |-> op, arg |-> arg, isOpen |-> open, pc |-> "queued",
     result_code_ |-> 0, error_message_ |-> "", calls |-> 0,
     partial |-> <<>>, exc |-> FALSE, settles |-> <<>>]

\* error_message_ of GetVfoAsyncWorker::Execute for a non-success status.
GetVfoMessage(code) ==
    IF code \in {RIG_ENAVAIL, -11} THEN "VFO query not supported by this radio"
    ELSE IF code = RIG_EIO THEN "I/O error during VFO query"
    ELSE IF code = RIG_ETIMEOUT THEN "Timeout during VFO query"
    ELSE IF code = RIG_EPROTO THEN "Protocol error during VFO query"
    ELSE "VFO query failed with code " \o ToString(code)

\* result_code_ a worker stores once its hardware calls returned: partial are
\* the statuses of earlier calls of the same Execute, s the last one.
ResultCode(op, partial, s) ==
    IF op = "clearRitXit"
    THEN (IF partial[1] # RIG_OK THEN partial[1] ELSE s)
    ELSE IF op = "memCount" THEN (IF s < 0 THEN s ELSE RIG_OK)
    ELSE s

\* error_message_ a worker stores for the result code of its hardware calls.
ErrorMessage(op, code) ==
    IF code = RIG_OK THEN ""
    ELSE IF op = "getVfo" THEN GetVfoMessage(code)
    ELSE rigerror(code)

\* error_message_ of the workers that decode a name or a number themselves.
WorkerValidationMessage(op, arg) ==
    IF op = "setPttType" THEN "Invalid PTT type"
    ELSE IF op = "setDcdType" THEN "Invalid DCD type"
    ELSE IF op = "setSerialConfig" /\ arg = "range" THEN "Timeout must be non-negative"
    ELSE "Unknown serial configuration parameter"

\* A build that reports a verb it leaves out by the library's own text for
\* the not-implemented status.
NotAvailableAsLibraryText(op) == rigerror(-RIG_ENIMPL)

\* Messages of the verbs left out of a build for an old library version.
NotAvailableMessage(op) ==
    IF op = "stopVoiceMem" THEN "rig_stop_voice_mem not available in this hamlib version"
    ELSE IF op = "setSplitFreqMode" THEN "rig_set_split_freq_mode not available - use setSplitFreq and setSplitMode separately"
    ELSE "rig_get_split_freq_mode not available - use getSplitFreq and getSplitMode separately"

Reject(msg) == [kind |-> "reject", msg |-> msg]
Resolve == [kind |-> "resolve", msg |-> ""]

\* An OnOK whose failure branch of getVfo lacks its return statement.
OnOKFallThrough(w) ==
    IF w.op = "getVfo" /\ w.result_code_ # RIG_OK
    THEN <<Reject(w.error_message_), Resolve>>
    ELSE <<Resolve>>

\* The calls OnOK makes on deferred_.
OnOK(w) ==
    IF w.op \in AlwaysResolveOps THEN <<Resolve>>
    ELSE IF w.op = "getVfo"
    THEN (IF w.result_code_ # RIG_OK THEN <<Reject(w.error_message_)>> ELSE <<Resolve>>)
    ELSE IF w.result_code_ # RIG_OK /\ w.error_message_ # ""
    THEN <<Reject(w.error_message_)>>
    ELSE <<Resolve>>

\* The calls OnError makes on deferred_.
OnError(w) == <<Reject(w.error_message_)>>


(***************************************************************************)
(* State.                                                                  *)
(*   my_rig       the handle field of NodeHamLib: "valid" or "null"        *)
(*   rig_is_open  the open flag of NodeHamLib                              *)
(*   cmds         the workers created so far, in submission order          *)
(*   queue        the pool's work queue (indices into cmds)                *)
(*   running      the worker each pool thread is running, 0 for none       *)
(*   doneq        workers whose Execute ended, awaiting OnOK/OnError       *)
(*   thrown       the exception the last dispatcher call left pending      *)
(*   newHamlib    whether the build saw HAMLIB_VERSION >= 0x040500         *)
(*   crashed      whether the process was terminated                       *)
(*   lastCall     the last method the caller invoked: its name, its class  *)
(*                of arguments, and whether the method itself (on the      *)
(*                JavaScript thread) read my_rig                           *)
(*   destructed   whether ~NodeHamLib has run                               *)
(*   dtorCalls    the hardware-library calls ~NodeHamLib made              *)
(* and, for the specifications that follow the values through one call:    *)
(*   info         the method called and its JavaScript argument list       *)
(*   made         what the call has done so far: the exception thrown, the *)
(*                worker constructed, the hardware-library calls it made   *)
(*                and the calls made on deferred_                          *)
(*   port         the port configuration held in my_rig->state: the PTT    *)
(*                and DCD types and the serial parameters                  *)
(*   conn         the connection fields NodeHamLib's constructor sets      *)
(***************************************************************************)
VARIABLES my_rig, rig_is_open, cmds, queue, running, doneq, thrown, newHamlib, crashed,
          lastCall, destructed, dtorCalls, info, made, port, conn

\* The configuration and connection fields.
storeVars == <<port, conn>>

\* The variables of the specifications that follow values through a call.
dataVars == <<info, made, port, conn>>

\* The variables of the command engine.
engineVars == <<my_rig, rig_is_open, cmds, queue, running, doneq, thrown, newHamlib,
                crashed, lastCall, destructed, dtorCalls>>

vars == <<my_rig, rig_is_open, cmds, queue, running, doneq, thrown, newHamlib, crashed,
          lastCall, destructed, dtorCalls, info, made, port, conn>>

\* No method has been called yet.
NoCall == [method |-> "", args |-> <<>>]

\* A call that has done nothing yet.
NothingMade ==
    [thrown |-> NoThrow, worker |-> <<>>, hw |-> <<>>, settles |-> <<>>, value |-> <<>>]

\* The port configuration rig_init leaves in my_rig->state for a serial
\* backend: 8 data bits, 1 stop bit, no parity, no handshake, the control
\* lines unset, no PTT and no DCD port.
RigInitPort ==
    [ptt |-> "RIG_PTT_NONE", dcd |-> "RIG_DCD_NONE",
     data_bits |-> 8, stop_bits |-> 1,
     parity |-> "RIG_PARITY_NONE", handshake |-> "RIG_HANDSHAKE_NONE",
     rts_state |-> "RIG_SIGNAL_UNSET", dtr_state |-> "RIG_SIGNAL_UNSET",
     rate |-> 9600, timeout |-> 200, retry |-> 3,
     write_delay |-> 0, post_write_delay |-> 0, flushx |-> 0]

\* Size of NodeHamLib::port_path, and the model of the network rig control
\* backend.
HAMLIB_FILPATHLEN == 512
RIG_MODEL_NETRIGCTL == 2

\* A C string is the sequence of its characters.
DefaultPortPath == <<"/", "d", "e", "v", "/", "t", "t", "y", "U", "S", "B", "0">>

\* strncpy(dst, src, HAMLIB_FILPATHLEN - 1); dst[HAMLIB_FILPATHLEN - 1] = 0
strncpy(src) ==
    SubSeq(src, 1, IF Len(src) < HAMLIB_FILPATHLEN - 1 THEN Len(src)
                   ELSE HAMLIB_FILPATHLEN - 1)

\* strchr(path, c): the position of the first c in path, 0 for none.
strchr(path, c) ==
    IF \E i \in DOMAIN path : path[i] = c
    THEN CHOOSE i \in DOMAIN path : path[i] = c /\ \A j \in 1..(i - 1) : path[j] # c
    ELSE 0

\* A variant that looks at the last character only.
isNetworkAddressByLastChar(path) == path # <<>> /\ path[Len(path)] # ":" /\ strchr(path, ":") # 0

\* NodeHamLib::isNetworkAddress: strlen(colon + 1) > 0 for the first colon.
isNetworkAddress(path) ==
    LET colon == strchr(path, ":") IN colon # 0 /\ Len(path) - colon > 0

\* The fields of NodeHamLib before its constructor ran (hamlib.h).
NoConn ==
    [port_path |-> <<>>, original_model |-> 0, is_network_rig |-> FALSE,
     rig_model |-> 0, pathname |-> <<>>, port_type |-> ""]

\* The fields the constructor sets for rig number model and port path path;
\* rig_model is the model rig_init was called with.
NewConn(model, path) ==
    LET port_path == strncpy(path)
        network == isNetworkAddress(port_path) IN
    [port_path |-> port_path,
     original_model |-> model,
     is_network_rig |-> network,
     rig_model |-> IF network THEN RIG_MODEL_NETRIGCTL ELSE model,
     pathname |-> port_path,
     port_type |-> IF network THEN "RIG_PORT_NETWORK" ELSE "RIG_PORT_SERIAL"]

\* The object after the constructor returned with a handle from rig_init.
Constructed ==
    /\ my_rig = "valid"
    /\ rig_is_open = FALSE
    /\ cmds = <<>>
    /\ queue = <<>>
    /\ running = [t \in Workers |-> 0]
    /\ doneq = <<>>
    /\ thrown = NoThrow
    /\ crashed = FALSE
    /\ lastCall = [op |-> "", arg |-> "", handle |-> FALSE]
    /\ destructed = FALSE
    /\ dtorCalls = <<>>
    /\ info = NoCall
    /\ made = NothingMade
    /\ port = RigInitPort
    /\ conn = NewConn(1, DefaultPortPath)

\* Whether a worker's hardware verb is compiled in.
Compiled(op) == op \notin VoiceMemOps \cup SplitFreqModeOps \/ newHamlib

\* Whether SetMode calls rig_passband_narrow or rig_passband_wide with my_rig:
\* it does once its checks passed and the second argument names a passband.
PassbandLookup(op, arg, err) == op = "setMode" /\ arg = "passband" /\ err = NoThrow

\* A dispatcher that makes the hardware-library call itself, before it queues
\* the worker.
DispatcherCallsInline(op, arg, prior) ==
    /\ ~crashed
    /\ ~destructed
    /\ LET err == SyncError(op, arg, rig_is_open) IN
       /\ lastCall' = [op |-> op, arg |-> arg, handle |-> PassbandLookup(op, arg, err)]
       /\ IF err # NoThrow
          THEN /\ thrown' = err
               /\ cmds' = prior
               /\ UNCHANGED queue
          ELSE /\ thrown' = NoThrow
               /\ cmds' = Append(prior, [NewWorker(op, arg, rig_is_open) EXCEPT !.calls = 1])
               /\ queue' = Append(queue, Len(prior) + 1)
    /\ UNCHANGED <<my_rig, rig_is_open, running, doneq, newHamlib, crashed,
                   destructed, dtorCalls>>
    /\ UNCHANGED dataVars

\* A dispatcher: the open check and the argument checks, then new ...Worker,
\* Queue(), return GetPromise().  prior is the part of cmds kept on record.
Dispatcher(op, arg, prior) ==
    /\ ~crashed
    /\ ~destructed
    /\ LET err == SyncError(op, arg, rig_is_open) IN
       /\ lastCall' = [op |-> op, arg |-> arg, handle |-> PassbandLookup(op, arg, err)]
       /\ IF err # NoThrow
          THEN /\ thrown' = err
               /\ cmds' = prior
               /\ UNCHANGED queue
          ELSE /\ thrown' = NoThrow
               /\ cmds' = Append(prior, NewWorker(op, arg, rig_is_open))
               /\ queue' = Append(queue, Len(prior) + 1)
    /\ UNCHANGED <<my_rig, rig_is_open, running, doneq, newHamlib, crashed,
                   destructed, dtorCalls>>
    /\ UNCHANGED dataVars

\* A pool thread takes the oldest queued work item.
WorkerTake(t) ==
    /\ ~crashed
    /\ running[t] = 0
    /\ queue # <<>>
    /\ running' = [running EXCEPT ![t] = Head(queue)]
    /\ queue' = Tail(queue)
    /\ cmds' = [cmds EXCEPT ![Head(queue)].pc = "taken"]
    /\ UNCHANGED <<my_rig, rig_is_open, doneq, thrown, newHamlib, crashed,
                   lastCall, destructed, dtorCalls>>
    /\ UNCHANGED dataVars

\* An end of Execute that posts no completion for a close or a destroy.
ExecuteEndsUnposted(t, w) ==
    /\ cmds' = [cmds EXCEPT ![running[t]] = [w EXCEPT !.pc = "executed"]]
    /\ running' = [running EXCEPT ![t] = 0]
    /\ doneq' = IF w.op \in {"close", "destroy"} THEN doneq ELSE Append(doneq, running[t])

\* Execute returns on thread t with the worker's fields as in w: the thread is
\* free again and the completion is posted to the JavaScript thread.
ExecuteEnds(t, w) ==
    /\ cmds' = [cmds EXCEPT ![running[t]] = [w EXCEPT !.pc = "executed"]]
    /\ running' = [running EXCEPT ![t] = 0]
    /\ doneq' = Append(doneq, running[t])

\* Execute from its entry to its first hardware-library call, or to its
\* return when it makes none.  A std::stoi on a non-number throws: a build
\* with C++ exceptions hands it to OnError, one without terminates.
ExecuteBegin(t) ==
    /\ ~crashed
    /\ running[t] # 0
    /\ cmds[running[t]].pc = "taken"
    /\ LET w == cmds[running[t]] IN
       IF my_rig = "null"
       THEN /\ ExecuteEnds(t, [w EXCEPT !.result_code_ = -RIG_EINVAL,
                                        !.error_message_ = CheckRigValidMessage])
            /\ UNCHANGED crashed
       ELSE IF w.op = "close" /\ ~rig_is_open
       THEN /\ ExecuteEnds(t, [w EXCEPT !.result_code_ = RIG_OK])
            /\ UNCHANGED crashed
       ELSE IF w.op \in StoiOps /\ w.arg = "nan"
       THEN \E caught \in BOOLEAN :
               IF caught
               THEN /\ ExecuteEnds(t, [w EXCEPT !.exc = TRUE])
                    /\ UNCHANGED crashed
               ELSE /\ crashed' = TRUE
                    /\ UNCHANGED <<cmds, running, doneq>>
       ELSE IF w.op \in LocalOps
       THEN /\ IF w.arg \in {"name", "range"}
               THEN ExecuteEnds(t, [w EXCEPT !.result_code_ = -RIG_EINVAL,
                                             !.error_message_ = WorkerValidationMessage(w.op, w.arg)])
               ELSE ExecuteEnds(t, [w EXCEPT !.result_code_ = RIG_OK])
            /\ UNCHANGED crashed
       ELSE IF ~Compiled(w.op)
       THEN /\ ExecuteEnds(t, [w EXCEPT !.result_code_ = -RIG_ENIMPL,
                                        !.error_message_ = NotAvailableMessage(w.op)])
            /\ UNCHANGED crashed
       ELSE /\ cmds' = [cmds EXCEPT ![running[t]] = [w EXCEPT !.pc = "incall", !.calls = 1]]
            /\ UNCHANGED <<running, doneq, crashed>>
    /\ UNCHANGED <<my_rig, rig_is_open, queue, thrown, newHamlib,
                   lastCall, destructed, dtorCalls>>
    /\ UNCHANGED dataVars

\* The hardware-library call of thread t returns status s; Execute runs on
\* to its next call or to its return.
ExecuteReturn(t, s) ==
    /\ ~crashed
    /\ running[t] # 0
    /\ cmds[running[t]].pc = "incall"
    /\ LET w == cmds[running[t]] IN
       IF w.op = "clearRitXit" /\ w.partial = <<>>
       THEN /\ cmds' = [cmds EXCEPT ![running[t]] = [w EXCEPT !.partial = <<s>>, !.calls = 2]]
            /\ UNCHANGED <<running, doneq, my_rig, rig_is_open>>
       ELSE LET code == ResultCode(w.op, w.partial, s) IN
            /\ ExecuteEnds(t, [w EXCEPT !.result_code_ = code,
                                        !.error_message_ = ErrorMessage(w.op, code)])
            /\ rig_is_open' = IF code # RIG_OK THEN rig_is_open
                              ELSE IF w.op = "open" THEN TRUE
                              ELSE IF w.op \in {"close", "destroy"} THEN FALSE
                              ELSE rig_is_open
            /\ my_rig' = IF code = RIG_OK /\ w.op = "destroy" THEN "null" ELSE my_rig
    /\ UNCHANGED <<queue, thrown, newHamlib, crashed, lastCall, destructed, dtorCalls>>
    /\ UNCHANGED dataVars

\* The JavaScript thread runs the completion of the oldest finished worker:
\* OnOK, or OnError when Execute ended by an exception.
Complete ==
    /\ ~crashed
    /\ doneq # <<>>
    /\ LET w == cmds[Head(doneq)] IN
       cmds' = [cmds EXCEPT ![Head(doneq)] =
                   [w EXCEPT !.pc = "settled",
                             !.settles = w.settles \o (IF w.exc THEN OnError(w) ELSE OnOK(w))]]
    /\ doneq' = Tail(doneq)
    /\ UNCHANGED <<my_rig, rig_is_open, queue, running, thrown, newHamlib, crashed,
                   lastCall, destructed, dtorCalls>>
    /\ UNCHANGED dataVars

\* The capability queries that run whole on the JavaScript thread.
QueryOps == {"getSupportedLevels", "getSupportedFunctions", "getSupportedModes"}

\* A capability query: it reads my_rig->caps or my_rig->state with no check
\* and returns an array.  With my_rig null the read is undefined: the process
\* is terminated, or the read yields some value and the method returns.
SyncQuery(op) ==
    /\ ~crashed
    /\ ~destructed
    /\ lastCall' = [op |-> op, arg |-> "ok", handle |-> TRUE]
    /\ thrown' = NoThrow
    /\ IF my_rig = "null"
       THEN \E survives \in BOOLEAN : crashed' = ~survives
       ELSE UNCHANGED crashed
    /\ UNCHANGED <<my_rig, rig_is_open, cmds, queue, running, doneq, newHamlib,
                   destructed, dtorCalls>>
    /\ UNCHANGED dataVars

\* ~NodeHamLib, run when the caller has dropped the object; the caller keeps
\* it while a promise of it is pending.
Destructor ==
    /\ ~crashed
    /\ ~destructed
    /\ queue = <<>> /\ doneq = <<>> /\ \A t \in Workers : running[t] = 0
    /\ destructed' = TRUE
    /\ dtorCalls' = IF my_rig = "null" THEN <<>>
                    ELSE IF rig_is_open THEN <<"rig_close", "rig_cleanup">>
                    ELSE <<"rig_cleanup">>
    /\ rig_is_open' = IF my_rig = "null" THEN rig_is_open ELSE FALSE
    /\ my_rig' = "null"
    /\ UNCHANGED <<cmds, queue, running, doneq, thrown, newHamlib, crashed, lastCall>>
    /\ UNCHANGED dataVars

(***************************************************************************)
(* Spec: callers submit up to MaxCmds well-formed commands, at any time,   *)
(* from an alphabet with the three lifecycle operations, a verb whose      *)
(* dispatcher checks rig_is_open and one whose dispatcher does not.        *)
(***************************************************************************)
EngineOps == {"open", "close", "destroy", "getFrequency", "getPtt"}

Init == Constructed /\ newHamlib = FALSE

Submit == \E op \in EngineOps : Len(cmds) < MaxCmds /\ Dispatcher(op, "ok", cmds)

Take == \E t \in Workers : WorkerTake(t)

Begin == \E t \in Workers : ExecuteBegin(t)

Return == \E t \in Workers : \E s \in EngineStatuses : ExecuteReturn(t, s)

Next == Submit \/ Take \/ Begin \/ Return \/ Complete \/ Destructor

Spec == Init /\ [][Next]_vars


(***************************************************************************)
(* LiveSpec: Spec with the scheduling the runtime gives.  Each pool thread *)
(* keeps running (it takes queued work when idle, runs Execute on, and a   *)
(* hardware-library call it is in returns), and the event loop of the      *)
(* JavaScript thread runs the completions posted to it.                    *)
(***************************************************************************)
Fairness ==
    /\ WF_vars(Take)
    /\ WF_vars(Begin)
    /\ WF_vars(Return)
    /\ WF_vars(Complete)

LiveSpec == Init /\ [][Next]_vars /\ Fairness

(***************************************************************************)
(* OpsSpec: a caller that awaits each promise before the next call, and    *)
(* calls every operation with every class of argument list, on a build for *)
(* either library version.  Only the last worker is kept on record.        *)
(***************************************************************************)
Idle == queue = <<>> /\ doneq = <<>> /\ \A t \in Workers : running[t] = 0

OpsInit == Constructed /\ newHamlib \in BOOLEAN

Call == \E op \in AsyncOps : \E arg \in ArgClasses(op) : Idle /\ Dispatcher(op, arg, <<>>)

OpsReturn == \E t \in Workers : \E s \in OpsStatuses : ExecuteReturn(t, s)

Query == \E op \in QueryOps : SyncQuery(op)

OpsNext == Call \/ Query \/ Take \/ Begin \/ OpsReturn \/ Complete \/ Destructor

OpsSpec == OpsInit /\ [][OpsNext]_vars

(***************************************************************************)
(* Vocabulary of the properties.                                           *)
(***************************************************************************)
Submitted == DOMAIN cmds

InCall(i) == cmds[i].pc = "incall"

CallsDone(i) == cmds[i].pc \in {"executed", "settled"}

Settled(i) == i \in Submitted /\ cmds[i].pc = "settled"

Rejected(i) == \E k \in DOMAIN cmds[i].settles : cmds[i].settles[k].kind = "reject"

Fulfilled(i) == \E k \in DOMAIN cmds[i].settles : cmds[i].settles[k].kind = "resolve"

\* Operations whose worker calls a verb of the hardware library.
HardwareOps == AsyncOps \ LocalOps

\* Hardware operations other than the two meant for a closed connection.
NeedOpenOps == HardwareOps \ {"open", "destroy"}

\* C1: at any instant at most one worker of the connection is inside its
\* hardware-library call.
C1_MutualExclusion == Cardinality({i \in Submitted : InCall(i)}) <= 1

\* C2: hardware calls run in submission order: when a worker has started a
\* hardware call, the calls of every worker submitted before it are over.
C2_SubmissionOrder ==
    \A i \in Submitted : \A j \in Submitted :
        (i < j /\ cmds[j].calls > 0) => CallsDone(i)

\* C3: every submitted command settles its promise exactly once: a worker
\* whose completion ran has made exactly one call on deferred_, resolve or
\* reject, and a worker whose completion has not run has made none.
C3_SettlesExactlyOnce ==
    \A i \in Submitted :
        Len(cmds[i].settles) = (IF cmds[i].pc = "settled" THEN 1 ELSE 0)

\* C3 witness: a command whose Execute returned early because the handle was
\* absent has settled, by one reject.
C3_Witness ==
    \E i \in Submitted :
        /\ cmds[i].pc = "settled"
        /\ cmds[i].calls = 0
        /\ cmds[i].settles = <<Reject(CheckRigValidMessage)>>

\* C4: under fair scheduling and a hardware library that returns, every
\* submitted command eventually has its promise settled: from some point on
\* every command that was submitted is settled (a settled promise stays
\* settled, and a behaviour submits finitely many commands).
C4_EventuallySettled == <>[](\A i \in Submitted : Settled(i))

\* C4 witness: a destroy and a getFrequency were pending together (the
\* getFrequency passed the open check and then found the handle gone), and
\* every submitted command has settled.
C4_Witness ==
    /\ Len(cmds) >= 3
    /\ \A i \in Submitted : Settled(i)
    /\ \E i \in Submitted : \E j \in Submitted :
        /\ cmds[i].op = "destroy"
        /\ cmds[j].op = "getFrequency"
        /\ cmds[j].isOpen
        /\ cmds[j].error_message_ = CheckRigValidMessage


\* C5: for every operation whose Execute returned, the promise is rejected
\* if and only if the status of the command is a non-success one, and
\* fulfilled if and only if it is success.
C5_RejectIffFailure ==
    \A i \in Submitted :
        (Settled(i) /\ ~cmds[i].exc) =>
            /\ Rejected(i) <=> cmds[i].result_code_ # RIG_OK
            /\ Fulfilled(i) <=> cmds[i].result_code_ = RIG_OK

\* C6: a getter whose hardware call returned a non-success status rejects its
\* promise and does not fulfil it.
C6_GetterFailureRejects ==
    \A i \in Submitted :
        (Settled(i) /\ cmds[i].op \in GetterOps /\ cmds[i].calls > 0
            /\ cmds[i].result_code_ # RIG_OK)
        => (Rejected(i) /\ ~Fulfilled(i))

\* C7: when a hardware call failed with status s, the message of the
\* rejection is rigerror(s).
C7_DiagnosticVerbatim ==
    \A i \in Submitted :
        (Settled(i) /\ cmds[i].calls > 0 /\ cmds[i].result_code_ # RIG_OK)
        => \A k \in DOMAIN cmds[i].settles :
              cmds[i].settles[k].kind = "reject"
              => cmds[i].settles[k].msg = rigerror(cmds[i].result_code_)

\* C8: an operation that needs an open connection, invoked while the
\* connection is closed, makes no hardware-library call.
C8_NoHardwareCallWhenClosed ==
    \A i \in Submitted :
        (cmds[i].op \in NeedOpenOps /\ ~cmds[i].isOpen) => cmds[i].calls = 0

\* C9: every operation that invokes a hardware verb, other than destroy (and
\* open), checks the open flag first: no worker of such an operation exists
\* whose dispatcher ran while the connection was closed or destroyed.
C9_NoWorkerQueuedWhenClosed ==
    \A i \in Submitted : cmds[i].op \in NeedOpenOps => cmds[i].isOpen

\* C10: a call with a missing or wrongly typed argument, an unrecognized
\* name or an out-of-range number queues no worker.
C10_InvalidCallNeverQueued ==
    \A i \in Submitted : cmds[i].arg \in {"ok", "passband"}

\* The last command on record is a close that called rig_close once and had
\* its promise fulfilled, and nothing is pending.
ClosedByClose ==
    /\ Idle
    /\ cmds # <<>>
    /\ cmds[Len(cmds)].op = "close"
    /\ cmds[Len(cmds)].calls = 1
    /\ Settled(Len(cmds))
    /\ Fulfilled(Len(cmds))

\* C11: Close is idempotent: a close called right after a close that
\* succeeded on an open connection succeeds too: the call raises no
\* exception and queues a worker.
C11_SecondCloseSucceeds ==
    [][(ClosedByClose /\ lastCall'.op = "close" /\ (thrown' # thrown \/ cmds' # cmds))
        => (thrown' = NoThrow /\ Len(cmds') = Len(cmds) + 1)]_vars

\* The hardware-library verb the Execute of a lifecycle worker calls.
LifecycleVerb == [open |-> "rig_open", close |-> "rig_close", destroy |-> "rig_cleanup"]

\* How often verb v has been called so far, by workers and by ~NodeHamLib.
VerbCalls(v) ==
    Cardinality({i \in Submitted : /\ cmds[i].op \in DOMAIN LifecycleVerb
                                   /\ LifecycleVerb[cmds[i].op] = v
                                   /\ cmds[i].calls > 0})
    + Cardinality({k \in DOMAIN dtorCalls : dtorCalls[k] = v})

\* C12: a destroy called after a close that succeeded calls rig_cleanup
\* exactly once and rig_close not at all (the one rig_close is the close's),
\* and once its Execute returned the connection is closed and the handle
\* absent.  The commands are open, close, destroy; the destroy's dispatcher
\* ran after rig_close had returned RIG_OK.
C12_DestroyAfterClose ==
    \A j \in Submitted :
        (/\ j > 1 /\ j = Len(cmds) /\ ~destructed
         /\ cmds[j].op = "destroy" /\ ~cmds[j].isOpen /\ CallsDone(j)
         /\ cmds[j - 1].op = "close" /\ cmds[j - 1].calls = 1
         /\ cmds[j - 1].result_code_ = RIG_OK /\ CallsDone(j - 1))
        => (/\ cmds[j].calls = 1
            /\ VerbCalls("rig_cleanup") = 1
            /\ VerbCalls("rig_close") = 1
            /\ my_rig = "null"
            /\ ~rig_is_open)

\* C13: over any interleaving of destroy commands and the final destruction
\* of the object, rig_cleanup is called at most once.
C13_CleanupAtMostOnce == VerbCalls("rig_cleanup") <= 1

\* A command whose Execute found the handle absent has had its promise
\* rejected, not fulfilled, and has made no hardware-library call.
AbsentHandleRejects ==
    \A i \in Submitted :
        (Settled(i) /\ cmds[i].error_message_ = CheckRigValidMessage)
        => (Rejected(i) /\ ~Fulfilled(i) /\ cmds[i].calls = 0)

\* The caller, with no promise pending, invokes a capability query.
QueryStep == Idle /\ lastCall'.op \in QueryOps /\ (lastCall' # lastCall \/ crashed' # crashed)

\* C14: after a destroy has resolved (the handle is absent and nothing is
\* pending), every operation fails with an error: a command's promise is
\* rejected and not fulfilled without a hardware-library call, and a
\* capability query raises an exception without dereferencing the handle.
C14_DestroyedFailsAll ==
    [][/\ AbsentHandleRejects'
       /\ (my_rig = "null" /\ ~destructed /\ QueryStep)
            => (thrown' # NoThrow /\ ~lastCall'.handle /\ ~crashed')]_vars

\* C15: once the Execute of a destroy has returned, whatever the state it was
\* called in and whatever rig_cleanup returned, the handle is absent and the
\* connection closed.
C15_DestroyReleasesHandle ==
    \A i \in Submitted :
        (cmds[i].op = "destroy" /\ CallsDone(i)) => (my_rig = "null" /\ ~rig_is_open)

\* C16: in every reachable state an open connection has its handle.
C16_OpenImpliesHandle == rig_is_open => my_rig = "valid"

\* C17: destroyed is terminal: from a state in which the handle is absent no
\* step makes it present again or leaves the connection open.
C17_DestroyedIsTerminal ==
    [][my_rig = "null" => (my_rig' = "null" /\ ~rig_is_open')]_vars

\* A worker whose hardware-library call returned a non-success status.
FailedCall(w) == w.calls > 0 /\ w.result_code_ # RIG_OK

\* The step ends the Execute that pool thread t was running.
ExecuteEndsOn(t) == running[t] # 0 /\ running'[t] = 0

\* The frame of a failure: a step that ends the Execute of a failed command
\* changes neither my_rig nor rig_is_open nor any other command; and
\* rig_is_open changes, while the object lives, only in a step that ends the
\* Execute of an open that succeeded (to TRUE) or of a close or a destroy
\* that succeeded (to FALSE).
FailureFrame ==
    /\ \A t \in Workers :
          (ExecuteEndsOn(t) /\ FailedCall(cmds'[running[t]]))
          => /\ my_rig' = my_rig
             /\ rig_is_open' = rig_is_open
             /\ \A j \in Submitted \ {running[t]} : cmds'[j] = cmds[j]
    /\ (rig_is_open' # rig_is_open /\ ~destructed')
          => \E t \in Workers :
                /\ ExecuteEndsOn(t)
                /\ cmds'[running[t]].calls = 1
                /\ cmds'[running[t]].result_code_ = RIG_OK
                /\ cmds'[running[t]].op \in (IF rig_is_open' THEN {"open"} ELSE {"close", "destroy"})

\* The completion of a failed command rejects the promise of that command
\* with its error message, and touches no other command.
FailureRejects ==
    (doneq # <<>> /\ doneq' = Tail(doneq) /\ FailedCall(cmds[Head(doneq)]))
    => /\ cmds'[Head(doneq)].settles = <<Reject(cmds[Head(doneq)].error_message_)>>
       /\ \A j \in Submitted \ {Head(doneq)} : cmds'[j] = cmds[j]

\* C18: a command whose hardware call returned a non-success status rejects
\* its own promise and no other, and leaves my_rig and rig_is_open as they
\* were; rig_is_open changes only through an open that succeeded (to TRUE)
\* and a close or a destroy that succeeded (to FALSE).
C18_FailureIsLocal == [][FailureFrame /\ FailureRejects]_vars

C20_NoCallerAccessDuringCall ==
    [][(lastCall' # lastCall /\ lastCall'.handle) => \A i \in Submitted : ~InCall(i)]_vars

(***************************************************************************)
(* The values of one call.  A JavaScript value is a record: t is its type, *)
(* s the characters of a string, b a boolean, n a number.  A number is a   *)
(* pair <<hi, lo>> that stands for hi * 100000 + lo with 0 <= lo < 100000, *)
(* so that 10 GHz is <<100000, 0>>; NaN is the number compared with which  *)
(* every comparison is false.                                              *)
(***************************************************************************)
JsString(s) == [t |-> "string", s |-> s, b |-> FALSE, n |-> <<0, 0>>]
JsBoolean(b) == [t |-> "boolean", s |-> "", b |-> b, n |-> <<0, 0>>]
JsNumber(hi, lo) == [t |-> "number", s |-> "", b |-> FALSE, n |-> <<hi, lo>>]
JsNaN == [t |-> "number", s |-> "NaN", b |-> FALSE, n |-> <<0, 0>>]
JsUndefined == [t |-> "undefined", s |-> "", b |-> FALSE, n |-> <<0, 0>>]

\* a < b for two numbers, as the comparison of doubles gives it.
LessThan(a, b) ==
    /\ a.s # "NaN" /\ b.s # "NaN"
    /\ (a.n[1] < b.n[1] \/ (a.n[1] = b.n[1] /\ a.n[2] < b.n[2]))

\* info.Length() > index && info[index].IsString()
IsStringAt(args, index) == Len(args) > index /\ args[index + 1].t = "string"

\* The chain "VFO-A" -> RIG_VFO_A, "VFO-B" -> RIG_VFO_B that the dispatchers
\* repeat; other is what the variable held before the chain.
VfoOfName(name, other) ==
    IF name = "VFO-A" THEN "RIG_VFO_A"
    ELSE IF name = "VFO-B" THEN "RIG_VFO_B"
    ELSE other

parseVfoParameter(args, index, defaultVfo) ==
    IF IsStringAt(args, index)
    THEN VfoOfName(args[index + 1].s, defaultVfo)
    ELSE defaultVfo

\* rig_parse_mode of the hardware library, for the mode names the callers of
\* this model use: RIG_MODE_NONE for a name it does not know.
rig_parse_mode(name) ==
    IF name \in {"USB", "LSB"} THEN "RIG_MODE_" \o name ELSE "RIG_MODE_NONE"

\* rig_passband_narrow and rig_passband_wide are lookups of the library.
rig_passband_narrow(mode) == "narrow(" \o mode \o ")"
rig_passband_wide(mode) == "wide(" \o mode \o ")"

\* A dispatcher that throws, and one that constructs and queues a worker.
Throws(msg) == [NothingMade EXCEPT !.thrown = msg]
Queues(w) == [NothingMade EXCEPT !.worker = <<w>>]

\* The fields the HamLibAsyncWorker constructor sets, for worker class op.
BaseWorker(op) == [op |-> op, result_code_ |-> 0, error_message_ |-> ""]

\* SetSplit with the second and third argument exchanged (the order the
\* method had before it was corrected).
NodeHamLib_SetSplitSwapped(args, open) ==
    IF ~open THEN Throws(NotOpenError)
    ELSE IF Len(args) < 1 \/ args[1].t # "boolean"
    THEN Throws("Expected boolean split enable state")
    ELSE LET two == Len(args) = 2 /\ args[2].t = "string"
             three == Len(args) = 3 /\ args[2].t = "string" /\ args[3].t = "string"
             rx_vfo == IF two THEN VfoOfName(args[2].s, "RIG_VFO_CURR")
                       ELSE IF three THEN VfoOfName(args[3].s, "RIG_VFO_CURR")
                       ELSE "RIG_VFO_CURR"
             tx_vfo == IF three THEN VfoOfName(args[2].s, "RIG_VFO_B")
                       ELSE "RIG_VFO_B"
         IN Queues(BaseWorker("setSplit") @@
                   [rx_vfo_ |-> rx_vfo,
                    split_ |-> IF args[1].b THEN "RIG_SPLIT_ON" ELSE "RIG_SPLIT_OFF",
                    tx_vfo_ |-> tx_vfo])

\* NodeHamLib::SetSplit.
NodeHamLib_SetSplit(args, open) ==
    IF ~open THEN Throws(NotOpenError)
    ELSE IF Len(args) < 1 \/ args[1].t # "boolean"
    THEN Throws("Expected boolean split enable state")
    ELSE LET two == Len(args) = 2 /\ args[2].t = "string"
             three == Len(args) = 3 /\ args[2].t = "string" /\ args[3].t = "string"
             rx_vfo == IF two \/ three THEN VfoOfName(args[2].s, "RIG_VFO_CURR")
                       ELSE "RIG_VFO_CURR"
             tx_vfo == IF three THEN VfoOfName(args[3].s, "RIG_VFO_B")
                       ELSE "RIG_VFO_B"
         IN Queues(BaseWorker("setSplit") @@
                   [rx_vfo_ |-> rx_vfo,
                    split_ |-> IF args[1].b THEN "RIG_SPLIT_ON" ELSE "RIG_SPLIT_OFF",
                    tx_vfo_ |-> tx_vfo])

\* SetFrequency without the upper limit of its range check.
NodeHamLib_SetFrequencyNoCeiling(args, open) ==
    IF ~open THEN Throws(NotOpenError)
    ELSE IF Len(args) < 1 THEN Throws("Must specify frequency")
    ELSE IF args[1].t # "number" THEN Throws("Frequency must be specified as a number")
    ELSE IF LessThan(args[1], JsNumber(0, 1000))
    THEN Throws("Frequency out of range (1 kHz - 10 GHz)")
    ELSE Queues(BaseWorker("setFrequency") @@
                [freq_ |-> args[1],
                 vfo_ |-> IF Len(args) >= 2 /\ args[2].t = "string"
                          THEN VfoOfName(args[2].s, "RIG_VFO_CURR")
                          ELSE "RIG_VFO_CURR"])

\* NodeHamLib::SetFrequency.
NodeHamLib_SetFrequency(args, open) ==
    IF ~open THEN Throws(NotOpenError)
    ELSE IF Len(args) < 1 THEN Throws("Must specify frequency")
    ELSE IF args[1].t # "number" THEN Throws("Frequency must be specified as a number")
    ELSE IF LessThan(args[1], JsNumber(0, 1000)) \/ LessThan(JsNumber(100000, 0), args[1])
    THEN Throws("Frequency out of range (1 kHz - 10 GHz)")
    ELSE Queues(BaseWorker("setFrequency") @@
                [freq_ |-> args[1],
                 vfo_ |-> IF Len(args) >= 2 /\ args[2].t = "string"
                          THEN VfoOfName(args[2].s, "RIG_VFO_CURR")
                          ELSE "RIG_VFO_CURR"])

NodeHamLib_SetMode(args, open) ==
    IF ~open THEN Throws(NotOpenError)
    ELSE IF Len(args) < 1 THEN Throws("Must specify mode")
    ELSE IF args[1].t # "string" THEN Throws("Must specify mode as string")
    ELSE LET mode == rig_parse_mode(args[1].s)
             second == Len(args) >= 2 /\ args[2].t = "string"
             bandwidth == IF second /\ args[2].s = "narrow" THEN rig_passband_narrow(mode)
                          ELSE IF second /\ args[2].s = "wide" THEN rig_passband_wide(mode)
                          ELSE "RIG_PASSBAND_NORMAL"
             vfo1 == IF second /\ args[2].s \notin {"narrow", "wide"}
                     THEN parseVfoParameter(args, 1, "RIG_VFO_CURR")
                     ELSE "RIG_VFO_CURR"
             vfo == IF Len(args) >= 3 THEN parseVfoParameter(args, 2, "RIG_VFO_CURR") ELSE vfo1
         IN IF mode = "RIG_MODE_NONE" THEN Throws("Invalid mode: " \o args[1].s)
            ELSE Queues(BaseWorker("setMode") @@
                        [mode_ |-> mode, width_ |-> bandwidth, vfo_ |-> vfo])

NodeHamLib_SetVFO(args, open) ==
    IF ~open THEN Throws(NotOpenError)
    ELSE IF Len(args) < 1 THEN Throws("Must specify VFO")
    ELSE IF args[1].t # "string" THEN Throws("Must specify VFO-A or VFO-B as a string")
    ELSE IF args[1].s \notin {"VFO-A", "VFO-B"} THEN Throws("Invalid VFO name")
    ELSE Queues(BaseWorker("setVfo") @@ [vfo_ |-> VfoOfName(args[1].s, "")])

NodeHamLib_GetFrequency(args, open) ==
    IF ~open THEN Throws(NotOpenError)
    ELSE Queues(BaseWorker("getFrequency") @@
                [vfo_ |-> IF Len(args) >= 1 /\ args[1].t = "string"
                          THEN VfoOfName(args[1].s, "RIG_VFO_CURR")
                          ELSE "RIG_VFO_CURR",
                 freq_ |-> JsNumber(0, 0)])

NodeHamLib_GetSplit(args, open) ==
    IF ~open THEN Throws(NotOpenError)
    ELSE Queues(BaseWorker("getSplit") @@
                [vfo_ |-> IF Len(args) >= 1 /\ args[1].t = "string"
                          THEN parseVfoParameter(args, 0, "RIG_VFO_CURR")
                          ELSE "RIG_VFO_CURR",
                 split_ |-> "RIG_SPLIT_OFF",
                 tx_vfo_ |-> "RIG_VFO_B"])

NodeHamLib_GetVFO(args, open) ==
    IF ~open THEN Throws(NotOpenError)
    ELSE Queues(BaseWorker("getVfo") @@ [vfo_ |-> "RIG_VFO_NONE"])

\* The methods whose values the model follows, and the dispatcher of each.
ValueMethods ==
    {"setSplit", "setFrequency", "setMode", "setVfo", "getFrequency", "getSplit", "getVfo"}

DispatchMethod(m, args, open) ==
    IF m = "setSplit" THEN NodeHamLib_SetSplit(args, open)
    ELSE IF m = "setFrequency" THEN NodeHamLib_SetFrequency(args, open)
    ELSE IF m = "setMode" THEN NodeHamLib_SetMode(args, open)
    ELSE IF m = "setVfo" THEN NodeHamLib_SetVFO(args, open)
    ELSE IF m = "getFrequency" THEN NodeHamLib_GetFrequency(args, open)
    ELSE IF m = "getSplit" THEN NodeHamLib_GetSplit(args, open)
    ELSE NodeHamLib_GetVFO(args, open)

\* The hardware-library call of a worker's Execute: the verb and, after the
\* handle, its arguments in the order of the call.
HardwareCall(w) ==
    IF w.op = "setSplit"
    THEN [verb |-> "rig_set_split_vfo", args |-> <<w.rx_vfo_, w.split_, w.tx_vfo_>>]
    ELSE IF w.op = "setFrequency" THEN [verb |-> "rig_set_freq", args |-> <<w.vfo_, w.freq_>>]
    ELSE IF w.op = "setMode"
    THEN [verb |-> "rig_set_mode", args |-> <<w.vfo_, w.mode_, w.width_>>]
    ELSE IF w.op = "setVfo" THEN [verb |-> "rig_set_vfo", args |-> <<w.vfo_>>]
    ELSE IF w.op = "getFrequency" THEN [verb |-> "rig_get_freq", args |-> <<w.vfo_>>]
    ELSE IF w.op = "getSplit" THEN [verb |-> "rig_get_split_vfo", args |-> <<w.vfo_>>]
    ELSE [verb |-> "rig_get_vfo", args |-> <<>>]

\* The VFO constants the hardware library can hand back.
HardwareVfos ==
    {"RIG_VFO_A", "RIG_VFO_B", "RIG_VFO_CURR", "RIG_VFO_MEM", "RIG_VFO_MAIN", "RIG_VFO_SUB"}

\* The worker after its hardware call returned status s; a call that
\* succeeded stored its out-values: the VFO vfo, the split state split.
AfterCall(w, s, vfo, split) ==
    LET r == [w EXCEPT !.result_code_ = s, !.error_message_ = ErrorMessage(w.op, s)] IN
    IF s # RIG_OK THEN r
    ELSE IF w.op = "getVfo" THEN [r EXCEPT !.vfo_ = vfo]
    ELSE IF w.op = "getSplit" THEN [r EXCEPT !.split_ = split, !.tx_vfo_ = vfo]
    ELSE IF w.op = "getFrequency" THEN [r EXCEPT !.freq_ = JsNumber(140, 74000)]
    ELSE r

\* GetVfoAsyncWorker::OnOK: the name of a VFO constant.
VfoName(vfo) ==
    IF vfo = "RIG_VFO_A" THEN "VFO-A"
    ELSE IF vfo = "RIG_VFO_B" THEN "VFO-B"
    ELSE IF vfo = "RIG_VFO_CURR" THEN "VFO-CURR"
    ELSE IF vfo = "RIG_VFO_MEM" THEN "VFO-MEM"
    ELSE "VFO-CURR"

\* GetSplitAsyncWorker::OnOK: the name of the transmit VFO.
TxVfoName(vfo) == IF vfo = "RIG_VFO_A" THEN "VFO-A" ELSE "VFO-B"

\* The value OnOK hands to deferred_.Resolve.
ResolveValue(w) ==
    IF w.op = "getVfo" THEN JsString(VfoName(w.vfo_))
    ELSE IF w.op = "getSplit"
    THEN [enabled |-> w.split_ = "RIG_SPLIT_ON", txVfo |-> TxVfoName(w.tx_vfo_)]
    ELSE IF w.op = "getFrequency" THEN w.freq_
    ELSE JsNumber(0, w.result_code_)

(***************************************************************************)
(* ArgsSpec: on a connection that is open or closed, a caller calls one    *)
(* method at a time with an argument list drawn from ArgLists; the worker  *)
(* it queued makes its hardware-library call, the stub answers, and the    *)
(* completion settles the promise.                                         *)
(***************************************************************************)

\* A pending call: a worker was queued and its promise is not settled.
CallPending == made.worker # <<>> /\ made.settles = <<>>

\* The caller calls method m with the argument list args.
ArgsCall(m, args) ==
    /\ ~CallPending
    /\ info' = [method |-> m, args |-> args]
    /\ made' = DispatchMethod(m, args, rig_is_open)
    /\ UNCHANGED <<engineVars, storeVars>>

\* Execute of the queued worker: CHECK_RIG_VALID passes, the hardware call is
\* made and returns status s with out-values vfo and split.
ArgsExecute(s, vfo, split) ==
    /\ CallPending
    /\ made.hw = <<>>
    /\ my_rig = "valid"
    /\ made' = [made EXCEPT !.hw = <<HardwareCall(made.worker[1])>>,
                            !.worker = <<AfterCall(made.worker[1], s, vfo, split)>>]
    /\ UNCHANGED <<info, engineVars, storeVars>>

\* OnOK of the worker, on the JavaScript thread.
ArgsComplete ==
    /\ CallPending
    /\ made.hw # <<>>
    /\ made' = [made EXCEPT !.settles = OnOK(made.worker[1]),
                            !.value = IF OnOK(made.worker[1]) = <<Resolve>>
                                      THEN <<ResolveValue(made.worker[1])>>
                                      ELSE <<>>]
    /\ UNCHANGED <<info, engineVars, storeVars>>

\* What a caller passes where a VFO is expected: the two names of the
\* table, a name outside it, the names a result can carry, and no string.
VfoArgs == {JsString("VFO-A"), JsString("VFO-B"), JsString("Main"), JsUndefined}
ResultVfoArgs == {JsString("VFO-CURR"), JsString("VFO-MEM")}

\* What a caller passes as a frequency: 500 Hz, 999 Hz, 1 kHz, 14.074 MHz,
\* 10 GHz, 10 GHz + 1 Hz, 20 GHz, NaN and a string.
FreqArgs ==
    {JsNumber(0, 500), JsNumber(0, 999), JsNumber(0, 1000), JsNumber(140, 74000),
     JsNumber(100000, 0), JsNumber(100000, 1), JsNumber(200000, 0), JsNaN, JsString("14074000")}

\* The argument lists of method m: each prefix of the full list.
ArgLists(m) ==
    {<<>>} \cup
    (IF m = "setSplit"
     THEN LET e == {JsBoolean(TRUE), JsBoolean(FALSE), JsUndefined} IN
          {<<a>> : a \in e} \cup (e \X VfoArgs) \cup (e \X VfoArgs \X VfoArgs)
     ELSE IF m = "setFrequency"
     THEN {<<f>> : f \in FreqArgs} \cup (FreqArgs \X VfoArgs)
     ELSE IF m = "setMode"
     THEN LET md == {JsString("USB"), JsString("FOO"), JsUndefined}
              second == VfoArgs \cup {JsString("narrow"), JsString("wide")} IN
          {<<a>> : a \in md} \cup (md \X second) \cup (md \X second \X VfoArgs)
     ELSE IF m = "getVfo" THEN {}
     ELSE {<<a>> : a \in VfoArgs \cup ResultVfoArgs})

ArgsInit ==
    /\ my_rig = "valid"
    /\ rig_is_open \in BOOLEAN
    /\ cmds = <<>> /\ queue = <<>> /\ doneq = <<>>
    /\ running = [t \in Workers |-> 0]
    /\ thrown = NoThrow /\ crashed = FALSE /\ newHamlib = FALSE
    /\ lastCall = [op |-> "", arg |-> "", handle |-> FALSE]
    /\ destructed = FALSE /\ dtorCalls = <<>>
    /\ info = NoCall
    /\ made = NothingMade
    /\ port = RigInitPort
    /\ conn = NewConn(1, DefaultPortPath)

ArgsInvoke == \E m \in ValueMethods : \E args \in ArgLists(m) : ArgsCall(m, args)

ArgsRun ==
    \E s \in EngineStatuses : \E vfo \in HardwareVfos :
        \E split \in {"RIG_SPLIT_ON", "RIG_SPLIT_OFF"} : ArgsExecute(s, vfo, split)

ArgsNext == ArgsInvoke \/ ArgsRun \/ ArgsComplete

ArgsSpec == ArgsInit /\ [][ArgsNext]_vars

(***************************************************************************)
(* Vocabulary of the properties about values.                              *)
(***************************************************************************)

\* The two names of the VFO table, as argument values.
TableVfoArgs == {JsString("VFO-A"), JsString("VFO-B")}

\* The constant a name of the VFO table stands for.
TableVfo(v) == IF v.s = "VFO-A" THEN "RIG_VFO_A" ELSE "RIG_VFO_B"

\* The call on record is method m on an open connection.
OpenCall(m) == info.method = m /\ rig_is_open

\* The promise of the call on record is settled.
CallSettled == made.settles # <<>>

\* C21: setSplit(enable, rx, tx) on an open connection, with rx and tx names
\* of the VFO table, makes exactly one hardware call, rig_set_split_vfo, whose
\* receive-VFO argument is rx and whose transmit-VFO argument is tx.
C21_SplitVfoOrder ==
    (/\ OpenCall("setSplit") /\ Len(info.args) = 3
     /\ info.args[1].t = "boolean"
     /\ info.args[2] \in TableVfoArgs /\ info.args[3] \in TableVfoArgs)
    => /\ made.thrown = NoThrow
       /\ Len(made.worker) = 1
       /\ CallSettled => Len(made.hw) = 1
       /\ \A k \in DOMAIN made.hw :
             made.hw[k] = [verb |-> "rig_set_split_vfo",
                           args |-> <<TableVfo(info.args[2]),
                                      IF info.args[1].b THEN "RIG_SPLIT_ON" ELSE "RIG_SPLIT_OFF",
                                      TableVfo(info.args[3])>>]

\* C21 witness: setSplit(true, "VFO-B", "VFO-A") has settled after one
\* hardware call.
C21_Witness ==
    /\ OpenCall("setSplit")
    /\ info.args = <<JsBoolean(TRUE), JsString("VFO-B"), JsString("VFO-A")>>
    /\ CallSettled
    /\ Len(made.hw) = 1

\* The call on record passes a number (not NaN) as its first argument.
NumberFirst ==
    Len(info.args) >= 1 /\ info.args[1].t = "number" /\ info.args[1].s # "NaN"

\* A frequency below 1000 Hz or above 10^10 Hz.
OutOfBand(f) == LessThan(f, JsNumber(0, 1000)) \/ LessThan(JsNumber(100000, 0), f)

\* C22: on an open connection setFrequency(f) with f below 1000 Hz or above
\* 10^10 Hz throws and neither queues a worker nor reaches the hardware
\* library; with 1000 <= f <= 10^10 it makes one hardware call, rig_set_freq
\* carrying f, and settles with the status of that call: fulfilled with
\* RIG_OK, or rejected with rigerror of the status.
C22_FrequencyBounds ==
    (OpenCall("setFrequency") /\ NumberFirst)
    => IF OutOfBand(info.args[1])
       THEN made.thrown # NoThrow /\ made.worker = <<>> /\ made.hw = <<>>
       ELSE /\ made.thrown = NoThrow
            /\ Len(made.worker) = 1
            /\ \A k \in DOMAIN made.hw :
                  made.hw[k].verb = "rig_set_freq" /\ made.hw[k].args[2] = info.args[1]
            /\ CallSettled =>
                  /\ Len(made.hw) = 1
                  /\ IF made.worker[1].result_code_ = RIG_OK
                     THEN made.settles = <<Resolve>> /\ made.value = <<JsNumber(0, RIG_OK)>>
                     ELSE made.settles = <<Reject(rigerror(made.worker[1].result_code_))>>

\* C22 witness: a setFrequency at the upper limit, 10^10 Hz, has made its
\* hardware call with that frequency and has been rejected with the status
\* the call returned.
C22_Witness ==
    /\ OpenCall("setFrequency")
    /\ NumberFirst
    /\ info.args[1] = JsNumber(100000, 0)
    /\ CallSettled
    /\ made.worker[1].result_code_ = -RIG_EIO
    /\ made.hw[1].args[2] = JsNumber(100000, 0)

\* The methods of the model that take an optional VFO, and the position of
\* that argument in the list.
OptionalVfoMethods == {"setFrequency", "getFrequency", "getSplit", "setMode"}

VfoPosition(m) == IF m = "setFrequency" THEN 2 ELSE IF m = "setMode" THEN 3 ELSE 1

\* The names a VFO can be given or reported by.
KnownVfoNames == {"VFO-A", "VFO-B", "VFO-CURR", "VFO-MEM"}

\* C23: an unrecognized VFO name is a validation error: a call of a method
\* with an optional VFO that passes, as the VFO, a string that is no VFO name
\* throws and queues no worker.
C23_UnknownVfoRejected ==
    (/\ info.method \in OptionalVfoMethods
     /\ rig_is_open
     /\ Len(info.args) >= VfoPosition(info.method)
     /\ info.args[VfoPosition(info.method)].t = "string"
     /\ info.args[VfoPosition(info.method)].s \notin KnownVfoNames)
    => (made.thrown # NoThrow /\ made.worker = <<>>)

\* C28: setMode(mode, s, ...) with a string s: "narrow" or "wide" selects
\* that passband of the mode and, with no third argument, leaves the VFO as
\* current; any other s leaves the bandwidth normal and, when it names a VFO,
\* selects that VFO, which stays selected when a third argument that is no
\* string is present.
C28_SetModeOverload ==
    (/\ OpenCall("setMode") /\ Len(info.args) >= 2
     /\ info.args[1].t = "string" /\ info.args[1].s \in {"USB", "LSB"}
     /\ info.args[2].t = "string")
    => /\ made.thrown = NoThrow
       /\ Len(made.worker) = 1
       /\ LET w == made.worker[1]
              s == info.args[2].s
          IN IF s \in {"narrow", "wide"}
             THEN /\ w.width_ = s \o "(" \o w.mode_ \o ")"
                  /\ Len(info.args) = 2 => w.vfo_ = "RIG_VFO_CURR"
             ELSE /\ w.width_ = "RIG_PASSBAND_NORMAL"
                  /\ (/\ info.args[2] \in TableVfoArgs
                      /\ (Len(info.args) = 2 \/ info.args[3].t # "string"))
                     => w.vfo_ = TableVfo(info.args[2])

\* The constant each name that getVfo can return is the encoding of.
VfoOfResultName ==
    [n \in KnownVfoNames |->
        IF n = "VFO-A" THEN "RIG_VFO_A"
        ELSE IF n = "VFO-B" THEN "RIG_VFO_B"
        ELSE IF n = "VFO-CURR" THEN "RIG_VFO_CURR"
        ELSE "RIG_VFO_MEM"]

\* C25: the VFO table is one bijection used in both directions: a name that
\* a result can carry, passed to setVfo, is accepted and decodes to the
\* constant it encodes; and getVfo encodes a constant other than
\* RIG_VFO_CURR to a name other than that of RIG_VFO_CURR.
C25_VfoTableBijection ==
    /\ (/\ OpenCall("setVfo") /\ Len(info.args) = 1
        /\ info.args[1].t = "string" /\ info.args[1].s \in KnownVfoNames)
       => /\ made.thrown = NoThrow
          /\ Len(made.worker) = 1
          /\ made.worker[1].vfo_ = VfoOfResultName[info.args[1].s]
    /\ (OpenCall("getVfo") /\ made.value # <<>> /\ made.worker[1].vfo_ # "RIG_VFO_CURR")
       => made.value[1].s # "VFO-CURR"

\* The statuses the hardware library reports a failure by.
HardwareErrors ==
    {-RIG_EINVAL, -RIG_ENIMPL, -RIG_ETIMEOUT, -RIG_EIO, -RIG_EPROTO, -RIG_ENAVAIL}

\* The operations whose hardware verb is an optional capability of the build.
OptionalOps == VoiceMemOps \cup SplitFreqModeOps

\* C26: in a build without the optional capability, a stopVoiceMem,
\* setSplitFreqMode or getSplitFreqMode that ran on a live handle made no
\* hardware call and rejected, once, with its not-implemented message and the
\* not-implemented code, and that message is the message of no hardware error
\* of any operation.
C26_AbsentCapabilityNotImplemented ==
    \A i \in Submitted :
        (/\ ~newHamlib /\ my_rig = "valid"
         /\ Settled(i) /\ cmds[i].op \in OptionalOps)
        => /\ cmds[i].calls = 0
           /\ cmds[i].result_code_ = -RIG_ENIMPL
           /\ cmds[i].settles = <<Reject(NotAvailableMessage(cmds[i].op))>>
           /\ \A o \in AsyncOps : \A c \in HardwareErrors :
                  cmds[i].settles[1].msg # ErrorMessage(o, c)
           /\ cmds[i].settles[1].msg # CheckRigValidMessage

\* A getSplitFreqMode settled in a build without the capability, the handle
\* live.
C26_Witness ==
    /\ ~newHamlib /\ my_rig = "valid"
    /\ \E i \in Submitted : Settled(i) /\ cmds[i].op = "getSplitFreqMode"

\* C27: a command that passed dispatch on an open connection and ran its
\* hardware verb on a live handle made exactly one hardware-library call.
C27_OneCallPerCommand ==
    \A i \in Submitted :
        (/\ Settled(i) /\ cmds[i].isOpen /\ my_rig = "valid"
         /\ cmds[i].op \in HardwareOps /\ Compiled(cmds[i].op))
        => cmds[i].calls = 1

(***************************************************************************)
(* The port configuration: the workers of setPttType, getPttType,          *)
(* setDcdType, getDcdType, setSerialConfig and getSerialConfig read and    *)
(* write fields of my_rig->state and call no hardware verb.  A parameter   *)
(* value is a std::string, the sequence of its characters.                 *)
(***************************************************************************)

\* A SetPttTypeAsyncWorker::Execute whose chain gives "GPION" the constant
\* of "GPIO".
PttTypeOfNameMerged(name) ==
    CASE name = "RIG" -> "RIG_PTT_RIG"
      [] name = "DTR" -> "RIG_PTT_SERIAL_DTR"
      [] name = "RTS" -> "RIG_PTT_SERIAL_RTS"
      [] name = "PARALLEL" -> "RIG_PTT_PARALLEL"
      [] name = "CM108" -> "RIG_PTT_CM108"
      [] name \in {"GPIO", "GPION"} -> "RIG_PTT_GPIO"
      [] name = "NONE" -> "RIG_PTT_NONE"
      [] OTHER -> ""

\* The if-chain of SetPttTypeAsyncWorker::Execute: the constant of a name,
\* "" where the chain ends in its else branch.
PttTypeOfName(name) ==
    CASE name = "RIG" -> "RIG_PTT_RIG"
      [] name = "DTR" -> "RIG_PTT_SERIAL_DTR"
      [] name = "RTS" -> "RIG_PTT_SERIAL_RTS"
      [] name = "PARALLEL" -> "RIG_PTT_PARALLEL"
      [] name = "CM108" -> "RIG_PTT_CM108"
      [] name = "GPIO" -> "RIG_PTT_GPIO"
      [] name = "GPION" -> "RIG_PTT_GPION"
      [] name = "NONE" -> "RIG_PTT_NONE"
      [] OTHER -> ""

\* The switch of GetPttTypeAsyncWorker::Execute.
PttTypeName(ptt) ==
    CASE ptt = "RIG_PTT_RIG" -> "RIG"
      [] ptt = "RIG_PTT_SERIAL_DTR" -> "DTR"
      [] ptt = "RIG_PTT_SERIAL_RTS" -> "RTS"
      [] ptt = "RIG_PTT_PARALLEL" -> "PARALLEL"
      [] ptt = "RIG_PTT_CM108" -> "CM108"
      [] ptt = "RIG_PTT_GPIO" -> "GPIO"
      [] ptt = "RIG_PTT_GPION" -> "GPION"
      [] ptt = "RIG_PTT_NONE" -> "NONE"
      [] OTHER -> "Unknown"

\* The if-chain of SetDcdTypeAsyncWorker::Execute.
DcdTypeOfName(name) ==
    CASE name = "RIG" -> "RIG_DCD_RIG"
      [] name = "DSR" -> "RIG_DCD_SERIAL_DSR"
      [] name = "CTS" -> "RIG_DCD_SERIAL_CTS"
      [] name = "CD" -> "RIG_DCD_SERIAL_CAR"
      [] name = "PARALLEL" -> "RIG_DCD_PARALLEL"
      [] name = "CM108" -> "RIG_DCD_CM108"
      [] name = "GPIO" -> "RIG_DCD_GPIO"
      [] name = "GPION" -> "RIG_DCD_GPION"
      [] name = "NONE" -> "RIG_DCD_NONE"
      [] OTHER -> ""

\* The switch of GetDcdTypeAsyncWorker::Execute.
DcdTypeName(dcd) ==
    CASE dcd = "RIG_DCD_RIG" -> "RIG"
      [] dcd = "RIG_DCD_SERIAL_DSR" -> "DSR"
      [] dcd = "RIG_DCD_SERIAL_CTS" -> "CTS"
      [] dcd = "RIG_DCD_SERIAL_CAR" -> "CD"
      [] dcd = "RIG_DCD_PARALLEL" -> "PARALLEL"
      [] dcd = "RIG_DCD_CM108" -> "CM108"
      [] dcd = "RIG_DCD_GPIO" -> "GPIO"
      [] dcd = "RIG_DCD_GPION" -> "GPION"
      [] dcd = "RIG_DCD_NONE" -> "NONE"
      [] OTHER -> "Unknown"

\* The outcome of an Execute: the worker and the port configuration after
\* it, and whether it ended by a C++ exception.
Ran(w, p) == [w |-> [w EXCEPT !.ran = TRUE], port |-> p, threw |-> FALSE]
Threw(w, p) == [w |-> [w EXCEPT !.ran = TRUE], port |-> p, threw |-> TRUE]

\* The end of an Execute that found its argument invalid.
Invalid(w, p, msg) ==
    Ran([w EXCEPT !.result_code_ = -RIG_EINVAL, !.error_message_ = msg], p)

\* The end of an Execute that succeeded.
Succeeded(w, p) == Ran([w EXCEPT !.result_code_ = RIG_OK], p)

SetPttTypeAsyncWorker_Execute(w, p) ==
    LET ptt_type == PttTypeOfName(w.ptt_type_) IN
    IF ptt_type = "" THEN Invalid(w, p, "Invalid PTT type")
    ELSE Succeeded(w, [p EXCEPT !.ptt = ptt_type])

GetPttTypeAsyncWorker_Execute(w, p) ==
    Succeeded([w EXCEPT !.ptt_type_str_ = PttTypeName(p.ptt)], p)

SetDcdTypeAsyncWorker_Execute(w, p) ==
    LET dcd_type == DcdTypeOfName(w.dcd_type_) IN
    IF dcd_type = "" THEN Invalid(w, p, "Invalid DCD type")
    ELSE Succeeded(w, [p EXCEPT !.dcd = dcd_type])

GetDcdTypeAsyncWorker_Execute(w, p) ==
    Succeeded([w EXCEPT !.dcd_type_str_ = DcdTypeName(p.dcd)], p)

\* The words the serial parameters are written with, as strings of
\* characters.
Text(word) ==
    CASE word = "None" -> <<"N", "o", "n", "e">>
      [] word = "Even" -> <<"E", "v", "e", "n">>
      [] word = "Odd" -> <<"O", "d", "d">>
      [] word = "Hardware" -> <<"H", "a", "r", "d", "w", "a", "r", "e">>
      [] word = "Software" -> <<"S", "o", "f", "t", "w", "a", "r", "e">>
      [] word = "ON" -> <<"O", "N">>
      [] word = "OFF" -> <<"O", "F", "F">>
      [] word = "true" -> <<"t", "r", "u", "e">>
      [] word = "false" -> <<"f", "a", "l", "s", "e">>
      [] word = "Unknown" -> <<"U", "n", "k", "n", "o", "w", "n">>

Digits == <<"0", "1", "2", "3", "4", "5", "6", "7", "8", "9">>

IsDigit(c) == \E d \in DOMAIN Digits : Digits[d] = c

DigitValue(c) == (CHOOSE d \in DOMAIN Digits : Digits[d] = c) - 1

\* The characters of s after its leading white space.
RECURSIVE SkipSpace(_)
SkipSpace(s) == IF s # <<>> /\ Head(s) = " " THEN SkipSpace(Tail(s)) ELSE s

\* The longest prefix of s made of digits.
RECURSIVE DigitRun(_)
DigitRun(s) ==
    IF s # <<>> /\ IsDigit(Head(s)) THEN <<Head(s)>> \o DigitRun(Tail(s)) ELSE <<>>

\* The number the digits ds continue acc to.
RECURSIVE Decimal(_, _)
Decimal(acc, ds) ==
    IF ds = <<>> THEN acc ELSE Decimal(acc * 10 + DigitValue(Head(ds)), Tail(ds))

\* std::stoi: white space, an optional sign, then digits up to the first
\* character that is none; std::invalid_argument when there is no digit.
\* (The values callers pass here have at most seven digits, so
\* std::out_of_range does not arise.)
stoi(s) ==
    LET t == SkipSpace(s)
        signed == t # <<>> /\ Head(t) \in {"-", "+"}
        ds == DigitRun(IF signed THEN Tail(t) ELSE t) IN
    IF ds = <<>> THEN [threw |-> TRUE, value |-> 0]
    ELSE [threw |-> FALSE,
          value |-> IF signed /\ Head(t) = "-" THEN -Decimal(0, ds) ELSE Decimal(0, ds)]

RECURSIVE ToDigits(_)
ToDigits(n) ==
    IF n < 10 THEN <<Digits[n + 1]>> ELSE ToDigits(n \div 10) \o <<Digits[(n % 10) + 1]>>

\* std::to_string of an int.
to_string(n) == IF n < 0 THEN <<"-">> \o ToDigits(-n) ELSE ToDigits(n)

\* The cast (short) of an int, 16 bits two's complement.
ShortOf(n) == ((n + 32768) % 65536) - 32768

\* valid_rates of SetSerialConfigAsyncWorker::Execute.
ValidRates ==
    {150, 300, 600, 1200, 2400, 4800, 9600, 19200, 38400, 57600, 115200,
     230400, 460800, 500000, 576000, 921600, 1000000, 1152000, 1500000,
     2000000, 2500000, 3000000, 3500000, 4000000}

\* The branches of SetSerialConfigAsyncWorker::Execute that convert the
\* value with std::stoi.
StoiParams ==
    {"data_bits", "stop_bits", "rate", "timeout", "retry", "write_delay", "post_write_delay"}

SetSerialConfigAsyncWorker_Execute(w, p) ==
    LET name == w.param_name_
        value == w.param_value_
        n == stoi(value) IN
    IF name \in StoiParams /\ n.threw THEN Threw(w, p)
    ELSE IF name = "data_bits" THEN Succeeded(w, [p EXCEPT !.data_bits = n.value])
    ELSE IF name = "stop_bits" THEN Succeeded(w, [p EXCEPT !.stop_bits = n.value])
    ELSE IF name = "serial_parity"
    THEN (IF value = Text("None") THEN Succeeded(w, [p EXCEPT !.parity = "RIG_PARITY_NONE"])
          ELSE IF value = Text("Even") THEN Succeeded(w, [p EXCEPT !.parity = "RIG_PARITY_EVEN"])
          ELSE IF value = Text("Odd") THEN Succeeded(w, [p EXCEPT !.parity = "RIG_PARITY_ODD"])
          ELSE Invalid(w, p, "Invalid parity value"))
    ELSE IF name = "serial_handshake"
    THEN (IF value = Text("None") THEN Succeeded(w, [p EXCEPT !.handshake = "RIG_HANDSHAKE_NONE"])
          ELSE IF value = Text("Hardware")
          THEN Succeeded(w, [p EXCEPT !.handshake = "RIG_HANDSHAKE_HARDWARE"])
          ELSE IF value = Text("Software")
          THEN Succeeded(w, [p EXCEPT !.handshake = "RIG_HANDSHAKE_XONXOFF"])
          ELSE Invalid(w, p, "Invalid handshake value"))
    ELSE IF name = "rts_state"
    THEN (IF value = Text("ON") THEN Succeeded(w, [p EXCEPT !.rts_state = "RIG_SIGNAL_ON"])
          ELSE IF value = Text("OFF") THEN Succeeded(w, [p EXCEPT !.rts_state = "RIG_SIGNAL_OFF"])
          ELSE Invalid(w, p, "Invalid RTS state value"))
    ELSE IF name = "dtr_state"
    THEN (IF value = Text("ON") THEN Succeeded(w, [p EXCEPT !.dtr_state = "RIG_SIGNAL_ON"])
          ELSE IF value = Text("OFF") THEN Succeeded(w, [p EXCEPT !.dtr_state = "RIG_SIGNAL_OFF"])
          ELSE Invalid(w, p, "Invalid DTR state value"))
    ELSE IF name = "rate"
    THEN (IF n.value \in ValidRates THEN Succeeded(w, [p EXCEPT !.rate = n.value])
          ELSE Invalid(w, p, "Invalid baud rate value"))
    ELSE IF name = "timeout"
    THEN (IF n.value >= 0 THEN Succeeded(w, [p EXCEPT !.timeout = n.value])
          ELSE Invalid(w, p, "Timeout must be non-negative"))
    ELSE IF name = "retry"
    THEN (IF n.value >= 0 THEN Succeeded(w, [p EXCEPT !.retry = ShortOf(n.value)])
          ELSE Invalid(w, p, "Retry count must be non-negative"))
    ELSE IF name = "write_delay"
    THEN (IF n.value >= 0 THEN Succeeded(w, [p EXCEPT !.write_delay = n.value])
          ELSE Invalid(w, p, "Write delay must be non-negative"))
    ELSE IF name = "post_write_delay"
    THEN (IF n.value >= 0 THEN Succeeded(w, [p EXCEPT !.post_write_delay = n.value])
          ELSE Invalid(w, p, "Post write delay must be non-negative"))
    ELSE IF name = "flushx"
    THEN (IF value \in {Text("true"), <<"1">>} THEN Succeeded(w, [p EXCEPT !.flushx = 1])
          ELSE IF value \in {Text("false"), <<"0">>} THEN Succeeded(w, [p EXCEPT !.flushx = 0])
          ELSE Invalid(w, p, "Flushx must be true/false or 1/0"))
    ELSE Invalid(w, p, "Unknown serial configuration parameter")

\* The name GetSerialConfigAsyncWorker::Execute gives an enumerated field.
ParityName(parity) ==
    CASE parity = "RIG_PARITY_NONE" -> Text("None")
      [] parity = "RIG_PARITY_EVEN" -> Text("Even")
      [] parity = "RIG_PARITY_ODD" -> Text("Odd")
      [] OTHER -> Text("Unknown")

HandshakeName(handshake) ==
    CASE handshake = "RIG_HANDSHAKE_NONE" -> Text("None")
      [] handshake = "RIG_HANDSHAKE_HARDWARE" -> Text("Hardware")
      [] handshake = "RIG_HANDSHAKE_XONXOFF" -> Text("Software")
      [] OTHER -> Text("Unknown")

SignalName(state) ==
    CASE state = "RIG_SIGNAL_ON" -> Text("ON")
      [] state = "RIG_SIGNAL_OFF" -> Text("OFF")
      [] OTHER -> Text("Unknown")

GetSerialConfigAsyncWorker_Execute(w, p) ==
    LET name == w.param_name_
        Got(v) == Succeeded([w EXCEPT !.param_value_ = v], p) IN
    IF name = "data_bits" THEN Got(to_string(p.data_bits))
    ELSE IF name = "stop_bits" THEN Got(to_string(p.stop_bits))
    ELSE IF name = "serial_parity" THEN Got(ParityName(p.parity))
    ELSE IF name = "serial_handshake" THEN Got(HandshakeName(p.handshake))
    ELSE IF name = "rts_state" THEN Got(SignalName(p.rts_state))
    ELSE IF name = "dtr_state" THEN Got(SignalName(p.dtr_state))
    ELSE IF name = "rate" THEN Got(to_string(p.rate))
    ELSE IF name = "timeout" THEN Got(to_string(p.timeout))
    ELSE IF name = "retry" THEN Got(to_string(p.retry))
    ELSE IF name = "write_delay" THEN Got(to_string(p.write_delay))
    ELSE IF name = "post_write_delay" THEN Got(to_string(p.post_write_delay))
    ELSE IF name = "flushx" THEN Got(IF p.flushx # 0 THEN Text("true") ELSE Text("false"))
    ELSE Invalid(w, p, "Unknown serial configuration parameter")

\* A worker of the port configuration as its constructor leaves it; ran
\* tells whether its Execute has ended, exc whether by an exception.
PortWorker(op) == BaseWorker(op) @@ [ran |-> FALSE, exc |-> FALSE]

NodeHamLib_SetSerialConfig(args) ==
    IF Len(args) < 2 \/ args[1].t # "string" \/ args[2].t # "string"
    THEN Throws("Expected parameter name and value as strings")
    ELSE Queues(PortWorker("setSerialConfig") @@
                [param_name_ |-> args[1].s, param_value_ |-> args[2].s])

NodeHamLib_GetSerialConfig(args) ==
    IF Len(args) < 1 \/ args[1].t # "string"
    THEN Throws("Expected parameter name as string")
    ELSE Queues(PortWorker("getSerialConfig") @@
                [param_name_ |-> args[1].s, param_value_ |-> <<>>])

NodeHamLib_SetPttType(args) ==
    IF Len(args) < 1 \/ args[1].t # "string"
    THEN Throws("Expected PTT type as string")
    ELSE Queues(PortWorker("setPttType") @@ [ptt_type_ |-> args[1].s])

NodeHamLib_GetPttType(args) == Queues(PortWorker("getPttType") @@ [ptt_type_str_ |-> ""])

NodeHamLib_SetDcdType(args) ==
    IF Len(args) < 1 \/ args[1].t # "string"
    THEN Throws("Expected DCD type as string")
    ELSE Queues(PortWorker("setDcdType") @@ [dcd_type_ |-> args[1].s])

NodeHamLib_GetDcdType(args) == Queues(PortWorker("getDcdType") @@ [dcd_type_str_ |-> ""])

\* The dispatcher of each method of the port configuration.
PortDispatch(m, args) ==
    IF m = "setSerialConfig" THEN NodeHamLib_SetSerialConfig(args)
    ELSE IF m = "getSerialConfig" THEN NodeHamLib_GetSerialConfig(args)
    ELSE IF m = "setPttType" THEN NodeHamLib_SetPttType(args)
    ELSE IF m = "getPttType" THEN NodeHamLib_GetPttType(args)
    ELSE IF m = "setDcdType" THEN NodeHamLib_SetDcdType(args)
    ELSE NodeHamLib_GetDcdType(args)

\* Execute of each worker class, after CHECK_RIG_VALID passed.
PortExecuteOf(w, p) ==
    IF w.op = "setSerialConfig" THEN SetSerialConfigAsyncWorker_Execute(w, p)
    ELSE IF w.op = "getSerialConfig" THEN GetSerialConfigAsyncWorker_Execute(w, p)
    ELSE IF w.op = "setPttType" THEN SetPttTypeAsyncWorker_Execute(w, p)
    ELSE IF w.op = "getPttType" THEN GetPttTypeAsyncWorker_Execute(w, p)
    ELSE IF w.op = "setDcdType" THEN SetDcdTypeAsyncWorker_Execute(w, p)
    ELSE GetDcdTypeAsyncWorker_Execute(w, p)

\* The value OnOK of each worker class hands to deferred_.Resolve.
PortResolveValue(w) ==
    IF w.op = "getSerialConfig" THEN JsString(w.param_value_)
    ELSE IF w.op = "getPttType" THEN JsString(w.ptt_type_str_)
    ELSE IF w.op = "getDcdType" THEN JsString(w.dcd_type_str_)
    ELSE JsNumber(0, w.result_code_)

\* The caller calls method m of the port configuration.
PortCall(m, args) ==
    /\ ~crashed
    /\ ~CallPending
    /\ info' = [method |-> m, args |-> args]
    /\ made' = PortDispatch(m, args)
    /\ UNCHANGED <<engineVars, storeVars>>

\* Execute of the queued worker, on a pool thread.  An exception of
\* std::stoi leaves Execute before anything is stored: a build with C++
\* exceptions hands it to OnError, one without terminates the process.
PortExecute ==
    /\ ~crashed
    /\ CallPending
    /\ ~made.worker[1].ran
    /\ my_rig = "valid"
    /\ LET r == PortExecuteOf(made.worker[1], port) IN
       IF r.threw
       THEN \E caught \in BOOLEAN :
               IF caught
               THEN /\ made' = [made EXCEPT !.worker = <<[r.w EXCEPT !.exc = TRUE]>>]
                    /\ UNCHANGED <<port, crashed>>
               ELSE /\ crashed' = TRUE
                    /\ UNCHANGED <<port, made>>
       ELSE /\ made' = [made EXCEPT !.worker = <<r.w>>]
            /\ port' = r.port
            /\ UNCHANGED crashed
    /\ UNCHANGED <<info, conn, my_rig, rig_is_open, cmds, queue, running, doneq, thrown,
                   newHamlib, lastCall, destructed, dtorCalls>>

\* OnOK or OnError of the worker, on the JavaScript thread.
PortComplete ==
    /\ ~crashed
    /\ CallPending
    /\ made.worker[1].ran
    /\ LET w == made.worker[1]
           calls == IF w.exc THEN OnError(w) ELSE OnOK(w) IN
       made' = [made EXCEPT !.settles = calls,
                            !.value = IF calls = <<Resolve>> THEN <<PortResolveValue(w)>>
                                      ELSE <<>>]
    /\ UNCHANGED <<info, engineVars, storeVars>>

\* The names callers pass as a PTT type and as a DCD type: the names of the
\* two tables, a name of the other table, and a name in lower case.
PttNameArgs ==
    {"RIG", "DTR", "RTS", "PARALLEL", "CM108", "GPIO", "GPION", "NONE", "DSR", "rig"}
DcdNameArgs ==
    {"RIG", "DSR", "CTS", "CD", "PARALLEL", "CM108", "GPIO", "GPION", "NONE", "DTR", "cd"}

\* The argument lists of the PTT and DCD methods.
TypeArgLists(m) ==
    IF m = "setPttType" THEN {<<>>} \cup {<<JsString(n)>> : n \in PttNameArgs}
    ELSE IF m = "setDcdType" THEN {<<>>} \cup {<<JsString(n)>> : n \in DcdNameArgs}
    ELSE {<<>>}

TypeMethods == {"setPttType", "getPttType", "setDcdType", "getDcdType"}

TypeInvoke == \E m \in TypeMethods : \E args \in TypeArgLists(m) : PortCall(m, args)

TypeNext == TypeInvoke \/ PortExecute \/ PortComplete

(***************************************************************************)
(* TypeSpec: on a constructed object a caller sets and reads the PTT type  *)
(* and the DCD type, one call at a time.                                   *)
(***************************************************************************)
TypeSpec == Init /\ [][TypeNext]_vars

\* The names of the PTT-type table and of the DCD-type table.
PttTypeNames == {"RIG", "DTR", "RTS", "PARALLEL", "CM108", "GPIO", "GPION", "NONE"}
DcdTypeNames == {"RIG", "DSR", "CTS", "CD", "PARALLEL", "CM108", "GPIO", "GPION", "NONE"}

\* A step in which the Execute of the pending worker runs to its end.
ExecuteStep ==
    /\ CallPending /\ ~made.worker[1].ran
    /\ made'.worker # <<>> /\ made'.worker[1].ran

\* What getPttType and getDcdType return for a port configuration p: the
\* string their Execute leaves for OnOK.
GetPttTypeOf(p) == GetPttTypeAsyncWorker_Execute(PortWorker("getPttType") @@ [ptt_type_str_ |-> ""], p).w.ptt_type_str_
GetDcdTypeOf(p) == GetDcdTypeAsyncWorker_Execute(PortWorker("getDcdType") @@ [dcd_type_str_ |-> ""], p).w.dcd_type_str_

\* An Execute that rejected its argument with message msg and stored nothing.
RejectedUnchanged(msg) ==
    /\ port' = port
    /\ made'.worker[1].result_code_ = -RIG_EINVAL
    /\ OnOK(made'.worker[1]) = <<Reject(msg)>>

\* C24: the PTT-type and DCD-type tables are inverse to each other: once
\* setPttType (setDcdType) has run with a name of its table, getPttType
\* (getDcdType) returns that name, until the next set; run with a name
\* outside the table, the call is rejected and the stored types are unchanged;
\* and the two get methods change nothing.
C24_TypeTablesRoundTrip ==
    [][/\ ExecuteStep =>
            LET w == made.worker[1] IN
            /\ w.op = "setPttType" =>
                 IF w.ptt_type_ \in PttTypeNames
                 THEN /\ GetPttTypeOf(port') = w.ptt_type_
                      /\ GetDcdTypeOf(port') = GetDcdTypeOf(port)
                      /\ OnOK(made'.worker[1]) = <<Resolve>>
                 ELSE RejectedUnchanged("Invalid PTT type")
            /\ w.op = "setDcdType" =>
                 IF w.dcd_type_ \in DcdTypeNames
                 THEN /\ GetDcdTypeOf(port') = w.dcd_type_
                      /\ GetPttTypeOf(port') = GetPttTypeOf(port)
                      /\ OnOK(made'.worker[1]) = <<Resolve>>
                 ELSE RejectedUnchanged("Invalid DCD type")
            /\ w.op = "getPttType" =>
                 /\ port' = port
                 /\ PortResolveValue(made'.worker[1]) = JsString(GetPttTypeOf(port))
            /\ w.op = "getDcdType" =>
                 /\ port' = port
                 /\ PortResolveValue(made'.worker[1]) = JsString(GetDcdTypeOf(port))
       /\ ~ExecuteStep => port' = port
      ]_vars

\* getPttType has returned "GPION", which only a setPttType("GPION") before
\* it can have stored, and the DCD type is "CD".
C24_Witness ==
    /\ info.method = "getPttType"
    /\ made.settles = <<Resolve>>
    /\ made.value = <<JsString("GPION")>>
    /\ port.dcd = "RIG_DCD_SERIAL_CAR"

\* A setDcdType with a name of the PTT table only has been rejected.
C24_RejectWitness ==
    /\ info.method = "setDcdType"
    /\ info.args = <<JsString("DTR")>>
    /\ made.settles = <<Reject("Invalid DCD type")>>

\* The most stored fields a caller of SerialSpec moves away from the values
\* rig_init gave them.
MaxChanged == 2

\* The fields of the port configuration that differ from rig_init's.
Changed == {f \in DOMAIN port : port[f] # RigInitPort[f]}

\* The values callers pass for each serial parameter: accepted ones, and ones
\* outside what getSupportedSerialConfigs lists.
SerialValueArgs(name) ==
    CASE name = "data_bits" -> {<<"5">>, <<"7">>, <<"9">>, <<"x">>}
      [] name = "stop_bits" -> {<<"2">>, <<"3">>, <<"0">>}
      [] name = "serial_parity" -> {Text("Even"), Text("Odd"), <<"M", "a", "r", "k">>}
      [] name = "serial_handshake" -> {Text("Hardware"), Text("Software"), <<"X", "O", "N">>}
      [] name = "rts_state" -> {Text("ON"), Text("OFF"), <<"o", "n">>}
      [] name = "dtr_state" -> {Text("ON"), Text("OFF"), <<"1">>}
      [] name = "rate" -> {<<"1", "1", "5", "2", "0", "0">>, <<"1", "2", "3", "4", "5">>}
      [] name = "timeout" -> {<<"0">>, <<"5", "0", "0">>, <<"-", "1">>}
      [] name = "retry" -> {<<"5">>, <<"-", "1">>, <<"4", "0", "0", "0", "0">>}
      [] name = "write_delay" -> {<<"1", "0">>, <<"-", "1">>}
      [] name = "post_write_delay" -> {<<"1", "0">>, <<"-", "5">>}
      [] name = "flushx" -> {Text("true"), <<"1">>, <<"y", "e", "s">>}
      [] OTHER -> {<<"9", "6", "0", "0">>}

\* The parameter names of Execute's chain, and one outside it.
SerialParams ==
    {"data_bits", "stop_bits", "serial_parity", "serial_handshake", "rts_state",
     "dtr_state", "rate", "timeout", "retry", "write_delay", "post_write_delay", "flushx"}
SerialParamArgs == SerialParams \cup {"baud"}

\* The argument lists of the serial configuration methods.
SerialArgLists(m) ==
    {<<>>} \cup
    (IF m = "setSerialConfig"
     THEN {<<JsString(n)>> : n \in {"data_bits"}} \cup
          UNION {{<<JsString(n), JsString(v)>> : v \in SerialValueArgs(n)} : n \in SerialParamArgs}
     ELSE {<<JsString(n)>> : n \in SerialParamArgs})

SerialSet ==
    \E args \in SerialArgLists("setSerialConfig") :
        Cardinality(Changed) < MaxChanged /\ PortCall("setSerialConfig", args)

SerialGet == \E args \in SerialArgLists("getSerialConfig") : PortCall("getSerialConfig", args)

SerialNext == SerialSet \/ SerialGet \/ PortExecute \/ PortComplete

(***************************************************************************)
(* SerialSpec: on a constructed object a caller sets and reads the serial  *)
(* parameters, one call at a time.                                         *)
(***************************************************************************)
SerialSpec == Init /\ [][SerialNext]_vars

\* The values getSupportedSerialConfigs lists for a parameter.
SupportedValues(name) ==
    CASE name = "data_bits" -> {<<"5">>, <<"6">>, <<"7">>, <<"8">>}
      [] name = "stop_bits" -> {<<"1">>, <<"2">>}
      [] name = "serial_parity" -> {Text("None"), Text("Even"), Text("Odd")}
      [] name = "serial_handshake" -> {Text("None"), Text("Hardware"), Text("Software")}
      [] name \in {"rts_state", "dtr_state"} -> {Text("ON"), Text("OFF")}

\* A value the serial configuration must not take: one outside the listed
\* values of an enumerated parameter, or a negative timeout, retry or delay.
Unacceptable(name, value) ==
    \/ /\ name \in {"data_bits", "stop_bits", "serial_parity", "serial_handshake",
                    "rts_state", "dtr_state"}
       /\ value \notin SupportedValues(name)
    \/ /\ name \in {"timeout", "retry", "write_delay", "post_write_delay"}
       /\ value # <<>> /\ Head(value) = "-"

\* The worker's promise will be rejected.
WillReject(w) == (IF w.exc THEN OnError(w) ELSE OnOK(w))[1].kind = "reject"

\* C30: a setSerialConfig whose value is unacceptable for its parameter is
\* rejected and leaves the stored configuration unchanged.
C30_SerialConfigValidated ==
    [][(/\ ExecuteStep
        /\ made.worker[1].op = "setSerialConfig"
        /\ Unacceptable(made.worker[1].param_name_, made.worker[1].param_value_))
       => /\ port' = port
          /\ WillReject(made'.worker[1])]_vars

(***************************************************************************)
(* Construction.  ConnSpec starts before the constructor has run: a caller *)
(* constructs the object from a rig number and an optional port path, and  *)
(* then asks getConnectionInfo.                                            *)
(***************************************************************************)

\* The longest port path a caller passes, and the characters it is made of.
MaxPathLen == 3
PathChars == {"a", ":", "/"}

\* The sequences over set S of length at most n.
SeqUpTo(S, n) == UNION {[1..k -> S] : k \in 0..n}

\* The rig numbers the hardware library has a backend for (rig_init returns
\* a handle), among the ones callers pass.
KnownModels == {1, 2, 1035}
ModelArgs == {JsNumber(0, 1), JsNumber(0, 2), JsNumber(0, 1035), JsNumber(0, 9999)}

\* rig_init of the hardware library.
rig_init(model) == IF model \in KnownModels THEN "valid" ELSE "null"

\* The argument lists of the constructor without a port path: none, a first
\* argument that is no number, a rig number alone, with a debug level.
ConstructorArgLists ==
    {<<>>, <<JsString("1035")>>}
    \cup {<<mdl>> : mdl \in ModelArgs}
    \cup {<<mdl, JsNumber(0, 5)>> : mdl \in ModelArgs}

\* The argument lists with a port path.
ConstructorPathArgLists ==
    {<<mdl, JsString(path)>> : mdl \in ModelArgs, path \in SeqUpTo(PathChars, MaxPathLen)}

\* NodeHamLib::NodeHamLib.  When rig_init returns no handle the constructor
\* leaves an exception pending and goes on to write through the null handle:
\* the process is terminated, or the write lands somewhere and the
\* constructor returns with the exception pending.
NodeHamLib_NodeHamLib(args) ==
    /\ ~crashed
    /\ info = NoCall
    /\ info' = [method |-> "new", args |-> args]
    /\ IF Len(args) < 1
       THEN /\ made' = Throws("Wrong number of arguments")
            /\ UNCHANGED <<conn, my_rig, rig_is_open, crashed>>
       ELSE IF args[1].t # "number"
       THEN /\ made' = Throws("Invalid Rig number")
            /\ UNCHANGED <<conn, my_rig, rig_is_open, crashed>>
       ELSE LET path == IF Len(args) >= 2 /\ args[2].t = "string" THEN args[2].s
                        ELSE DefaultPortPath
                c == NewConn(args[1].n[2], path)
                handle == rig_init(c.rig_model) IN
            /\ conn' = c
            /\ my_rig' = handle
            /\ IF handle = "null"
               THEN /\ made' = Throws("Unable to Init Rig")
                    /\ \E survives \in BOOLEAN : crashed' = ~survives
               ELSE /\ made' = NothingMade
                    /\ UNCHANGED crashed
            /\ rig_is_open' = FALSE
    /\ UNCHANGED <<port, cmds, queue, running, doneq, thrown, newHamlib, lastCall,
                   destructed, dtorCalls>>

\* NodeHamLib::GetConnectionInfo, on an object whose constructor returned
\* normally: the object it returns.
NodeHamLib_GetConnectionInfo ==
    /\ ~crashed
    /\ info.method = "new"
    /\ made.thrown = NoThrow
    /\ made' = [made EXCEPT !.value =
                   <<[connectionType |-> IF conn.is_network_rig THEN "network" ELSE "serial",
                      portPath |-> conn.port_path,
                      isOpen |-> rig_is_open,
                      originalModel |-> conn.original_model,
                      currentModel |-> IF conn.is_network_rig THEN 2
                                       ELSE conn.original_model]>>]
    /\ UNCHANGED <<info, engineVars, storeVars>>

\* Before the constructor: no field is set.
ConnInit ==
    /\ my_rig = "null"
    /\ rig_is_open = FALSE
    /\ cmds = <<>> /\ queue = <<>> /\ doneq = <<>>
    /\ running = [t \in Workers |-> 0]
    /\ thrown = NoThrow /\ crashed = FALSE /\ newHamlib = FALSE
    /\ lastCall = [op |-> "", arg |-> "", handle |-> FALSE]
    /\ destructed = FALSE /\ dtorCalls = <<>>
    /\ info = NoCall
    /\ made = NothingMade
    /\ port = RigInitPort
    /\ conn = NoConn

Construct ==
    \/ \E args \in ConstructorArgLists : NodeHamLib_NodeHamLib(args)
    \/ \E args \in ConstructorPathArgLists : NodeHamLib_NodeHamLib(args)

ConnNext == Construct \/ NodeHamLib_GetConnectionInfo

ConnSpec == ConnInit /\ [][ConnNext]_vars

\* A target names a network endpoint: it has a colon with a character after.
HasPort(target) == \E i \in DOMAIN target : target[i] = ":" /\ i < Len(target)

\* C29: for an object whose constructor returned normally, the target is a
\* network one exactly when it has a colon followed by a character; the
\* resolved model is 2 for a network target and the caller's rig number for a
\* local one, the requested model is the caller's rig number in both cases,
\* and what getConnectionInfo returned is these values, with every field
\* still as the constructor left it.
C29_NetworkTargetResolution ==
    (info.method = "new" /\ made.thrown = NoThrow /\ ~crashed)
    => LET model == info.args[1].n[2]
           target == IF Len(info.args) >= 2 /\ info.args[2].t = "string"
                     THEN info.args[2].s ELSE DefaultPortPath
           network == HasPort(target) IN
       /\ conn.is_network_rig = network
       /\ conn.port_path = target
       /\ conn.original_model = model
       /\ conn.rig_model = IF network THEN 2 ELSE model
       /\ conn.port_type = IF network THEN "RIG_PORT_NETWORK" ELSE "RIG_PORT_SERIAL"
       /\ my_rig = "valid" /\ rig_is_open = FALSE
       /\ made.value # <<>> =>
            made.value[1] = [connectionType |-> IF network THEN "network" ELSE "serial",
                             portPath |-> target,
                             isOpen |-> FALSE,
                             originalModel |-> model,
                             currentModel |-> conn.rig_model]

\* getConnectionInfo has reported a network target "a::" requested with rig
\* number 1035 and resolved to model 2.
C29_Witness ==
    /\ info.method = "new" /\ made.thrown = NoThrow /\ ~crashed
    /\ Len(info.args) = 2 /\ info.args[1].n = <<0, 1035>>
    /\ info.args[2].t = "string" /\ info.args[2].s = <<"a", ":", ":">>
    /\ made.value # <<>>
    /\ made.value[1].connectionType = "network"
    /\ made.value[1].originalModel = 1035
    /\ made.value[1].currentModel = 2


(***************************************************************************)
(* Interleavings of the lifecycle workers with the other workers.          *)
(***************************************************************************)

\* Worker i enters its hardware-library call in this step.
EntersCall(i) == cmds[i].pc = "taken" /\ cmds'[i].pc = "incall"

\* C31: no hardware verb is invoked on a closed connection, across
\* interleavings: a command whose dispatcher saw the connection open enters
\* its hardware-library call only while rig_is_open still holds, also when a
\* close was submitted before it and executed in between.
C31_NoVerbAfterClose ==
    [][\A i \in Submitted :
          (cmds[i].op \in NeedOpenOps /\ cmds[i].isOpen /\ EntersCall(i))
          => rig_is_open]_vars

\* Worker j is a destroy whose Execute has passed my_rig to rig_cleanup.
CleanupRun(j) == cmds[j].op = "destroy" /\ cmds[j].calls > 0

\* C32: no worker is inside a hardware-library call, holding the handle it
\* read after CHECK_RIG_VALID, once a destroy has passed the same handle to
\* rig_cleanup.
C32_NoUseAfterCleanup ==
    \A i \in Submitted : \A j \in Submitted \ {i} : CleanupRun(j) => ~InCall(i)

\* C33: an open called while the connection is open makes no hardware-library
\* call: rig_open is not invoked and the callbacks are not installed again.
C33_OpenWhenOpenIsNoOp ==
    \A i \in Submitted : (cmds[i].op = "open" /\ cmds[i].isOpen) => cmds[i].calls = 0


\* rig_init returned no handle to the constructor.
InitFailed == info.method = "new" /\ made.thrown = "Unable to Init Rig"

\* C34: when rig_init returns no handle for the requested model, the
\* construction fails with an error and nothing more is done through the
\* absent handle: the process goes on, and neither the port path nor the port
\* type has been written through my_rig.
C34_NoAccessThroughAbsentHandle ==
    InitFailed => (/\ ~crashed
                   /\ conn.pathname = NoConn.pathname
                   /\ conn.port_type = NoConn.port_type)


(***************************************************************************)
(* The serial configuration read back.                                     *)
(***************************************************************************)

\* What getSerialConfig returns for parameter name on port configuration p:
\* the string its Execute leaves for OnOK.
GetSerialConfigOf(name, p) ==
    GetSerialConfigAsyncWorker_Execute(
        PortWorker("getSerialConfig") @@ [param_name_ |-> name, param_value_ |-> <<>>],
        p).w.param_value_

\* The Execute of a setSerialConfig ends in this step with the value stored.
SetSerialConfigAccepts ==
    /\ ExecuteStep
    /\ made.worker[1].op = "setSerialConfig"
    /\ ~made'.worker[1].exc
    /\ made'.worker[1].result_code_ = RIG_OK

\* C35: the serial configuration round-trips: once setSerialConfig has
\* accepted value v for a parameter, a getSerialConfig of that parameter
\* returns v, the flushx values "1" and "0" and the retry values above 32767
\* included.
C35_SerialConfigRoundTrip ==
    [][SetSerialConfigAccepts
       => GetSerialConfigOf(made.worker[1].param_name_, port') = made.worker[1].param_value_]_vars


(***************************************************************************)
(* The messages of getVfo.                                                 *)
(***************************************************************************)

\* The error codes getVfo has a message of its own for; the hardware library
\* returns them negated.
VfoSpecificErrors == {RIG_EIO, RIG_ETIMEOUT, RIG_EPROTO}

\* C36: a getVfo whose rig_get_vfo returned the negated code of an I/O error,
\* a timeout or a protocol error rejects with the message of that error, the
\* one the switch of Execute holds for the code, and not with the generic
\* "VFO query failed with code" message.
C36_GetVfoSpecificMessages ==
    \A i \in Submitted :
        (/\ cmds[i].op = "getVfo" /\ Settled(i) /\ cmds[i].calls > 0
         /\ -cmds[i].result_code_ \in VfoSpecificErrors)
        => cmds[i].settles = <<Reject(GetVfoMessage(-cmds[i].result_code_))>>
====
